---- MODULE Spec2Model ----
(***************************************************************************)
(* Insight aggregation and risk classification engine of inet-ready:       *)
(* the snapshot assembler (web/lib/server/insights.ts), the demographic     *)
(* loader (web/lib/server/demographics.ts) and the metrics endpoint         *)
(* (web/app/api/insights/metrics/route.ts).                                 *)
(*                                                                         *)
(* Conventions of the model                                                *)
(*   - heat-stress values are integers in thousandths of a degree, so that  *)
(*     26.999 is 26999 and the cutoff 54 is 54000;                          *)
(*   - multipliers are integers in hundredths (0.34 is 34);                 *)
(*   - instants are milliseconds since the epoch, as Date.parse returns     *)
(*     them; NaN is the value Date.parse / Number return for text that      *)
(*     does not parse;                                                      *)
(*   - null / undefined is NULL; a nullable number n is held as <<n>>.      *)
(***************************************************************************)
EXTENDS Integers, Sequences, FiniteSets, TLC

VARIABLES
    \* ---- risk classifier applied to one value
    cValue,         \* the argument of classifyRiskLevel: NULL or <<v>>
    cResult,        \* NULL before the call, then the returned {level, label}
    cDescriptor,    \* NULL before the call, then what classifyHeatIndex returned
    \* ---- peak / window analyzers applied to one series
    wHourly,        \* the series handed to the analyzers
    wNowPeak,       \* Date.now() as read by computePeakNext24h
    wNowCount,      \* Date.now() as read by countHighRiskHours
    wPeak,          \* result of computePeakNext24h (NULL or a point)
    wCount,         \* result of countHighRiskHours
    wPc,            \* "start", "peaked", "counted"
    \* ---- the metrics endpoint and the snapshot assembler
    hourlySrc,      \* hourly_heat_index.json as found when it is read
    weatherSrc,     \* weather_history.csv as found when it is read
    forecastSrc,    \* heat_index_predictions.csv as found when it is read
    demoSrc,        \* cavite_demographics.csv as found when it is read
    clock,          \* Date.now() during the request
    reqCity,        \* raw ?city= parameter (NULL when absent)
    reqDays,        \* raw ?days= parameter (NULL when absent)
    pc,             \* position of the request handler
    city,           \* trimmed city handed to buildInsightSnapshot
    days,           \* window size handed to buildInsightSnapshot
    hourlyPayload,  \* parsed hourly document
    cityEntry,      \* findHourlyEntry result
    weatherHistory, \* loadWeatherHistory result
    forecastPoints, \* loadForecastSeries result
    demographic,    \* findDemographicRecord result
    snapshot,       \* the assembled InsightSnapshot (NULL until built)
    thrown,         \* the step whose exception aborted assembly (NULL if none)
    response,       \* the HTTP response (NULL until sent)
    \* ---- one call of a dataset loader
    lKind,          \* "weather" or "forecast": which loader is called
    lLines,         \* the dataset file, as lines of fields
    lCity,          \* the city argument
    lDays,          \* the days argument
    lNow,           \* new Date() inside loadForecastSeries
    lResult,        \* what the loader returned
    lPc,            \* "idle", "start", "loaded"
    \* ---- the color scale
    kValue,         \* argument of heatIndexColor: NULL, <<NaN>> or <<tenths>>
    kFill,          \* color returned by heatIndexColor (NULL before the call)
    kHex,           \* argument of pickTextColor, as hex digits
    kText,          \* color returned by pickTextColor (NULL before the call)
    kPc,            \* "idle", "start", "filled", "done"
    \* ---- the CityMap render effect
    boundaryCache,  \* boundaryCacheRef.current: locality name -> geometry or NULL
    layerCache,     \* layerCacheRef.current: locality name -> layer or NULL
    mapLayers,      \* the layers that are on the Leaflet map
    view,           \* the last fitBounds (NULL before the first)
    runs,           \* every run of the effect so far; the last one is the live one
    fetchCount,     \* boundary requests sent to the geocoding source, per name
    \* ---- the insights page
    selectedCity,   \* the selectedCity state
    metrics,        \* the metrics state (NULL until a snapshot is stored)
    metricsStatus,  \* "idle", "loading" or "error"
    demographics,   \* the demographics state: the records of /api/demographics
    demoStatus,     \* "idle", "loading" or "error"
    metricsRuns,    \* every run of the loadMetrics effect; the last is the live one
    \* ---- the advisory endpoint
    cacheFile,      \* safety_recommendations_cache.json as it is on disk
    advClock,       \* Date.now() on the server
    advRequests     \* the requests being handled: id -> position and locals

classifyVars == <<cValue, cResult, cDescriptor>>
windowVars == <<wHourly, wNowPeak, wNowCount, wPeak, wCount, wPc>>
sourceVars == <<hourlySrc, weatherSrc, forecastSrc, demoSrc, clock, reqCity, reqDays>>
handlerVars == <<pc, city, days, hourlyPayload, cityEntry, weatherHistory,
                 forecastPoints, demographic, snapshot, thrown, response>>
loaderVars == <<lKind, lLines, lCity, lDays, lNow, lResult, lPc>>
colorVars == <<kValue, kFill, kHex, kText, kPc>>
mapVars == <<boundaryCache, layerCache, mapLayers, view, runs, fetchCount>>
pageVars == <<selectedCity, metrics, metricsStatus, demographics, demoStatus, metricsRuns>>
advisoryVars == <<cacheFile, advClock, advRequests>>
coreVars == <<classifyVars, windowVars, sourceVars, handlerVars>>
\* what the actions of the core specifications leave alone
restVars == <<loaderVars, colorVars, mapVars, pageVars, advisoryVars>>
\* what the actions of the loader specification leave alone
exceptLoaderVars == <<coreVars, colorVars, mapVars, pageVars, advisoryVars>>
\* what the actions of the color specification leave alone
exceptColorVars == <<coreVars, loaderVars, mapVars, pageVars, advisoryVars>>
\* what the actions of the map specification leave alone
exceptMapVars == <<coreVars, loaderVars, colorVars, pageVars, advisoryVars>>
\* what the actions of the page specification leave alone
exceptPageVars == <<coreVars, loaderVars, colorVars, mapVars, advisoryVars>>
\* what the actions of the advisory specification leave alone
exceptAdvisoryVars == <<coreVars, loaderVars, colorVars, mapVars, pageVars>>
vars == <<coreVars, loaderVars, colorVars, mapVars, pageVars, advisoryVars>>

NULL == <<>>
NaN == -1
\* the value of Number("Infinity"); no finite number of the model is as large
Infinity == 2147483647

(***************************************************************************)
(* Generic helpers standing for the JavaScript built-ins the code uses.    *)
(***************************************************************************)
Min(a, b) == IF a <= b THEN a ELSE b
Max(a, b) == IF a >= b THEN a ELSE b

\* Array.prototype.slice(-n) for n > 0: the trailing n elements.
SliceLast(s, n) == IF Len(s) <= n THEN s ELSE SubSeq(s, Len(s) - n + 1, Len(s))

\* Array.prototype.slice(0, n).
SliceFirst(s, n) == IF Len(s) <= n THEN s ELSE SubSeq(s, 1, n)

\* Number.isFinite on a parse result.
NumberIsFinite(x) == x # NaN /\ x # Infinity /\ x # -Infinity

\* String.prototype.toLowerCase on the locality names of the model.
ToLowerCase(s) ==
    CASE s = "Imus" -> "imus"
      [] s = "IMUS" -> "imus"
      [] s = "Bacoor" -> "bacoor"
      [] s = "Tanza" -> "tanza"
      [] s = "Dasmarinas" -> "dasmarinas"
      [] s = "HIGH" -> "high"
      [] OTHER -> s

\* no trimming at all
TrimNothing(s) == s

\* String.prototype.trim on the texts of the model.
Trim(s) ==
    CASE s = " IMUS " -> "IMUS"
      [] s = " Imus" -> "Imus"
      [] s = "  " -> ""
      [] s = " city" -> "city"
      [] s = " Open cooling centers" -> "Open cooling centers"
      [] OTHER -> s

\* Number(text) on the numeric texts of the model: heat values in
\* thousandths, NaN for text that is not a number.
NumberOfText(s) ==
    CASE s = "" -> 0
      [] s = "30.25" -> 30250
      [] s = "33" -> 33000
      [] s = "35.5" -> 35500
      [] s = "41" -> 41000
      [] s = "44.1" -> 44100
      [] s = "2.9" -> 2900
      [] OTHER -> NaN

\* Number(searchParams.get("days")), in tenths: Number(null) and Number("")
\* are 0, text that is not a number gives NaN.
NumberOfParam(p) ==
    IF p = NULL THEN 0
    ELSE CASE p[1] = "" -> 0
           [] p[1] = "0" -> 0
           [] p[1] = "-1" -> -10
           [] p[1] = "2.5" -> 25
           [] p[1] = "5" -> 50
           [] p[1] = "7" -> 70
           [] p[1] = "30.9" -> 309
           [] p[1] = "100" -> 1000
           [] p[1] = "1000000" -> 10000000
           [] p[1] = "Infinity" -> Infinity
           [] OTHER -> NaN

\* Math.floor of a number held in tenths
MathFloor(tenths) == tenths \div 10

\* Math.round(n / d) for d > 0: the nearest integer, halves towards +infinity.
MathRound(n, d) == (2 * n + d) \div (2 * d)

\* Date.parse on the timestamp texts of the model.
DateParse(s) ==
    CASE s = "1970-01-01T23:59:59.999Z" -> 86399999
      [] s = "1970-01-02T00:00:00.000Z" -> 86400000
      [] s = "1970-01-02T00:00:00.001Z" -> 86400001
      [] s = "1970-01-02T12:00:00.000Z" -> 129600000
      [] s = "1970-01-03T00:00:00.000Z" -> 172800000
      [] s = "1970-01-03T00:00:00.001Z" -> 172800001
      [] s = "1970-01-03T12:00:00.000Z" -> 216000000
      [] s = "1970-01-04T00:00:00.000Z" -> 259200000
      [] s = "1970-01-04T00:00:00.001Z" -> 259200001
      [] s = "1970-01-04T00:00:00.002Z" -> 259200002
      [] s = "1970-01-01" -> 0
      [] s = "1970-01-02" -> 86400000
      [] s = "1970-01-03" -> 172800000
      [] s = "1970-01-04" -> 259200000
      [] s = "1970-01-05" -> 345600000
      [] OTHER -> NaN

\* 24 * 60 * 60 * 1000
DayMs == 24 * 60 * 60 * 1000

(***************************************************************************)
(* Risk classifier                                                         *)
(***************************************************************************)
RiskLevels == {"unknown", "comfort", "caution", "moderate", "high", "extreme"}

RISK_LABELS ==
    [unknown |-> "Status Unknown", comfort |-> "Comfort", caution |-> "Caution",
     moderate |-> "Heat Alert", high |-> "Danger", extreme |-> "Extreme"]

\* the table with the multipliers of caution and moderate exchanged
VULNERABLE_MULTIPLIER_Exchanged ==
    [unknown |-> 12, comfort |-> 8, caution |-> 34,
     moderate |-> 18, high |-> 55, extreme |-> 72]

VULNERABLE_MULTIPLIER ==
    [unknown |-> 12, comfort |-> 8, caution |-> 18,
     moderate |-> 34, high |-> 55, extreme |-> 72]

\* classifyRiskLevel with the cutoff 41 left out of the "high" band
classifyRiskLevelOpenHigh(value) ==
    IF value = NULL THEN [level |-> "unknown", label |-> RISK_LABELS.unknown]
    ELSE IF value[1] >= 54000 THEN [level |-> "extreme", label |-> RISK_LABELS.extreme]
    ELSE IF value[1] > 41000 THEN [level |-> "high", label |-> RISK_LABELS.high]
    ELSE IF value[1] >= 32000 THEN [level |-> "moderate", label |-> RISK_LABELS.moderate]
    ELSE IF value[1] >= 27000 THEN [level |-> "caution", label |-> RISK_LABELS.caution]
    ELSE [level |-> "comfort", label |-> RISK_LABELS.comfort]

\* value is NULL or <<v>>, v in thousandths
classifyRiskLevel(value) ==
    IF value = NULL THEN [level |-> "unknown", label |-> RISK_LABELS.unknown]
    ELSE IF value[1] >= 54000 THEN [level |-> "extreme", label |-> RISK_LABELS.extreme]
    ELSE IF value[1] >= 41000 THEN [level |-> "high", label |-> RISK_LABELS.high]
    ELSE IF value[1] >= 32000 THEN [level |-> "moderate", label |-> RISK_LABELS.moderate]
    ELSE IF value[1] >= 27000 THEN [level |-> "caution", label |-> RISK_LABELS.caution]
    ELSE [level |-> "comfort", label |-> RISK_LABELS.comfort]

\* RISK_LABELS of the dashboard page (its own table, with a badge and a
\* message for each level)
DASHBOARD_RISK_LABELS ==
    [unknown |-> [label |-> "STATUS UNKNOWN", badge |-> "Awaiting data",
                  message |-> "Live feed still syncing"],
     comfort |-> [label |-> "COMFORT", badge |-> "Enjoy outdoors",
                  message |-> "Cool, low-risk conditions for most activities"],
     caution |-> [label |-> "CAUTION", badge |-> "Stay hydrated",
                  message |-> "Outdoor activity is manageable with breaks"],
     moderate |-> [label |-> "HEAT ALERT", badge |-> "Limit exertion",
                   message |-> "Shade and hydration recommended"],
     high |-> [label |-> "DANGER", badge |-> "High risk",
               message |-> "Heat cramps and exhaustion likely"],
     extreme |-> [label |-> "EXTREME DANGER", badge |-> "Severe risk",
                  message |-> "Heat stroke imminent without protection"]]

\* the descriptor of a level: the level and the fields of its labels (the
\* icon and the vulnerable-group copy are further per-level constants)
RiskDescriptor(level) ==
    [level |-> level,
     label |-> DASHBOARD_RISK_LABELS[level].label,
     badge |-> DASHBOARD_RISK_LABELS[level].badge,
     message |-> DASHBOARD_RISK_LABELS[level].message]

\* classifyHeatIndex testing the value for truthiness instead of null
classifyHeatIndexTruthy(value) ==
    IF value = NULL \/ value[1] = 0 THEN RiskDescriptor("unknown")
    ELSE IF value[1] >= 54000 THEN RiskDescriptor("extreme")
    ELSE IF value[1] >= 41000 THEN RiskDescriptor("high")
    ELSE IF value[1] >= 32000 THEN RiskDescriptor("moderate")
    ELSE IF value[1] >= 27000 THEN RiskDescriptor("caution")
    ELSE RiskDescriptor("comfort")

\* the classifier of the dashboard page; value is NULL or <<v>>, v in
\* thousandths
classifyHeatIndex(value) ==
    IF value = NULL THEN RiskDescriptor("unknown")
    ELSE IF value[1] >= 54000 THEN RiskDescriptor("extreme")
    ELSE IF value[1] >= 41000 THEN RiskDescriptor("high")
    ELSE IF value[1] >= 32000 THEN RiskDescriptor("moderate")
    ELSE IF value[1] >= 27000 THEN RiskDescriptor("caution")
    ELSE RiskDescriptor("comfort")

(***************************************************************************)
(* Peak / window analyzers                                                 *)
(***************************************************************************)
\* the filter of computePeakNext24h
IsFuturePoint(point, now) ==
    LET ts == DateParse(point.timestamp)
    IN  NumberIsFinite(ts) /\ ts >= now /\ ts <= now + DayMs

RECURSIVE FilterFuture(_, _)
FilterFuture(hourly, now) ==
    IF hourly = <<>> THEN <<>>
    ELSE IF IsFuturePoint(Head(hourly), now)
         THEN <<Head(hourly)>> \o FilterFuture(Tail(hourly), now)
         ELSE FilterFuture(Tail(hourly), now)

\* the reduce with >= : a later reading of equal value replaces the peak
RECURSIVE ReducePeakLast(_, _)
ReducePeakLast(points, peak) ==
    IF points = <<>> THEN peak
    ELSE ReducePeakLast(Tail(points),
                        IF Head(points).heat_index_c >= peak.heat_index_c THEN Head(points) ELSE peak)

\* windowPoints.reduce((peak, point) => point.heat_index_c > peak.heat_index_c ? point : peak, peak)
RECURSIVE ReducePeak(_, _)
ReducePeak(points, peak) ==
    IF points = <<>> THEN peak
    ELSE ReducePeak(Tail(points),
                    IF Head(points).heat_index_c > peak.heat_index_c THEN Head(points) ELSE peak)

computePeakNext24h(hourly, now) ==
    IF Len(hourly) = 0 THEN NULL
    ELSE LET futurePoints == FilterFuture(hourly, now)
             windowPoints == IF Len(futurePoints) # 0 THEN futurePoints ELSE SliceLast(hourly, 24)
         IN  IF Len(windowPoints) = 0 THEN NULL
             ELSE ReducePeak(windowPoints, windowPoints[1])

\* the filter with the lookback bound excluded
IsHighRiskHourOpenLookback(point, now) ==
    LET ts == DateParse(point.timestamp)
        lookback == now - DayMs
    IN  IF ~NumberIsFinite(ts) \/ ts <= lookback \/ ts > now THEN FALSE
        ELSE point.heat_index_c >= 41000

\* the filter of countHighRiskHours
IsHighRiskHour(point, now) ==
    LET ts == DateParse(point.timestamp)
        lookback == now - DayMs
    IN  IF ~NumberIsFinite(ts) \/ ts < lookback \/ ts > now THEN FALSE
        ELSE point.heat_index_c >= 41000

RECURSIVE countHighRiskHours(_, _)
countHighRiskHours(hourly, now) ==
    IF hourly = <<>> THEN 0
    ELSE (IF IsHighRiskHour(Head(hourly), now) THEN 1 ELSE 0)
         + countHighRiskHours(Tail(hourly), now)


(***************************************************************************)
(* Tabular parser and dataset loaders (insights.ts).  A text file is held  *)
(* as its sequence of lines after trim() and split(/\r?\n/), each line as  *)
(* the sequence of fields split(",") gives; the empty file has no line.    *)
(***************************************************************************)
parseCsv(lines) ==
    IF lines = <<>> THEN [headers |-> <<>>, rows |-> <<>>]
    ELSE [headers |-> [i \in 1..Len(Head(lines)) |-> Trim(Head(lines)[i])],
          rows |-> Tail(lines)]

\* record[header] after headers.forEach: the trimmed field of the last column
\* named header, "" standing for undefined when there is no such column
FieldOf(row, headers, name) ==
    LET cols == {i \in 1..Len(headers) : headers[i] = name}
    IN  IF cols = {} THEN ""
        ELSE Trim(row[CHOOSE i \in cols : \A j \in cols : j <= i])

toNumber(value) ==
    IF value = "" THEN NULL
    ELSE LET parsed == NumberOfText(value)
         IN  IF NumberIsFinite(parsed) THEN <<parsed>> ELSE NULL

toWeatherRecord(row, headers) ==
    IF Len(row) # Len(headers) THEN NULL
    ELSE IF FieldOf(row, headers, "city") = "" \/ FieldOf(row, headers, "date") = "" THEN NULL
    ELSE [city |-> FieldOf(row, headers, "city"),
          date |-> FieldOf(row, headers, "date"),
          current |-> toNumber(FieldOf(row, headers, "apparent_temperature_max")),
          average |-> toNumber(FieldOf(row, headers, "temperature_2m_max"))]

toForecastRecord(row, headers) ==
    IF Len(row) # Len(headers) THEN NULL
    ELSE IF FieldOf(row, headers, "city") = "" \/ FieldOf(row, headers, "date") = "" THEN NULL
    ELSE [city |-> FieldOf(row, headers, "city"),
          date |-> FieldOf(row, headers, "date"),
          predicted |-> toNumber(FieldOf(row, headers, "heat_index_pred")),
          actual |-> toNumber(FieldOf(row, headers, "heat_index_actual")),
          residual |-> toNumber(FieldOf(row, headers, "residual"))]

\* the rows of every locality
RECURSIVE WeatherRecordsOfAnyCity(_, _, _)
WeatherRecordsOfAnyCity(rows, headers, cityArg) ==
    IF rows = <<>> THEN <<>>
    ELSE LET record == toWeatherRecord(Head(rows), headers)
             rest == WeatherRecordsOfAnyCity(Tail(rows), headers, cityArg)
         IN  IF record # NULL THEN <<record>> \o rest ELSE rest

\* rows.map(toWeatherRecord).filter(Boolean).filter(city matches)
RECURSIVE WeatherRecordsOf(_, _, _)
WeatherRecordsOf(rows, headers, cityArg) ==
    IF rows = <<>> THEN <<>>
    ELSE LET record == toWeatherRecord(Head(rows), headers)
             rest == WeatherRecordsOf(Tail(rows), headers, cityArg)
         IN  IF record # NULL /\ ToLowerCase(record.city) = ToLowerCase(cityArg)
             THEN <<record>> \o rest
             ELSE rest

\* the part of loadWeatherHistory after the file has been read
loadWeatherHistory(lines, cityArg, daysArg) ==
    LET csv == parseCsv(lines)
    IN  IF Len(csv.headers) = 0 THEN <<>>
        ELSE SliceLast(WeatherRecordsOf(csv.rows, csv.headers, cityArg), daysArg)

RECURSIVE ForecastRecordsOf(_, _, _)
ForecastRecordsOf(rows, headers, cityArg) ==
    IF rows = <<>> THEN <<>>
    ELSE LET record == toForecastRecord(Head(rows), headers)
             rest == ForecastRecordsOf(Tail(rows), headers, cityArg)
         IN  IF record # NULL /\ ToLowerCase(record.city) = ToLowerCase(cityArg)
             THEN <<record>> \o rest
             ELSE rest

\* the comparator handed to sort
CompareByDate(a, b) ==
    LET aTime == DateParse(a.date)
        bTime == DateParse(b.date)
    IN  IF ~NumberIsFinite(aTime) \/ ~NumberIsFinite(bTime) THEN 0 ELSE aTime - bTime

\* records.slice().sort(comparator): a stable sort
RECURSIVE InsertByDate(_, _)
InsertByDate(sorted, record) ==
    IF sorted = <<>> THEN <<record>>
    ELSE IF CompareByDate(sorted[Len(sorted)], record) <= 0 THEN Append(sorted, record)
    ELSE Append(InsertByDate(SubSeq(sorted, 1, Len(sorted) - 1), record), sorted[Len(sorted)])

RECURSIVE SortByDate(_)
SortByDate(records) ==
    IF records = <<>> THEN <<>>
    ELSE InsertByDate(SortByDate(SubSeq(records, 1, Len(records) - 1)), records[Len(records)])

\* new Date(y, m, d).getTime() of today, the server clock being UTC
TodayStart(now) == now - (now % DayMs)

IsUpcoming(record, now) ==
    LET parsed == DateParse(record.date)
    IN  NumberIsFinite(parsed) /\ parsed >= TodayStart(now)

RECURSIVE FilterUpcoming(_, _)
FilterUpcoming(records, now) ==
    IF records = <<>> THEN <<>>
    ELSE IF IsUpcoming(Head(records), now)
         THEN <<Head(records)>> \o FilterUpcoming(Tail(records), now)
         ELSE FilterUpcoming(Tail(records), now)

\* the part of loadForecastSeries after the file has been read
loadForecastSeries(lines, cityArg, daysArg, now) ==
    LET csv == parseCsv(lines)
        records == ForecastRecordsOf(csv.rows, csv.headers, cityArg)
        sorted == SortByDate(records)
        upcoming == FilterUpcoming(sorted, now)
        window == IF Len(upcoming) # 0 THEN upcoming ELSE SliceLast(sorted, daysArg)
        shown == SliceFirst(window, daysArg)
    IN  IF Len(csv.headers) = 0 THEN <<>>
        ELSE IF Len(records) = 0 THEN <<>>
        ELSE [i \in 1..Len(shown) |->
                 [date |-> shown[i].date, predicted |-> shown[i].predicted,
                  actual |-> shown[i].actual, residual |-> shown[i].residual]]

\* the lookup falling back to the first entry of the document
findHourlyEntryOrFirst(payload, cityArg) ==
    LET hits == {i \in 1..Len(payload.cities) :
                    ToLowerCase(payload.cities[i].city) = ToLowerCase(cityArg)}
    IN  IF hits # {} THEN payload.cities[CHOOSE i \in hits : \A j \in hits : i <= j]
        ELSE IF Len(payload.cities) > 0 THEN payload.cities[1]
        ELSE NULL

\* payload.cities.find(entry => entry.city.toLowerCase() === lower) ?? null
findHourlyEntry(payload, cityArg) ==
    LET hits == {i \in 1..Len(payload.cities) :
                    ToLowerCase(payload.cities[i].city) = ToLowerCase(cityArg)}
    IN  IF hits = {} THEN NULL
        ELSE payload.cities[CHOOSE i \in hits : \A j \in hits : i <= j]

(***************************************************************************)
(* Demographic loader (demographics.ts).  Demographic figures of the model *)
(* are whole numbers.                                                      *)
(***************************************************************************)
HEADERS ==
    <<"city", "classification", "district", "population_2020", "population_2015",
      "annual_growth_rate_pct", "area_km2", "density_per_km2", "barangays",
      "province_population_share_pct", "source_url", "collected_at">>

\* parseNumber: the first -?\d+(\.\d+)? inside the text, null when there is none
parseNumber(value) ==
    CASE value = "" -> NULL
      [] value = "0" -> <<0>>
      [] value = "3" -> <<3>>
      [] value = "97" -> <<97>>
      [] value = "100000" -> <<100000>>
      [] value = "about 250" -> <<250>>
      [] OTHER -> NULL

toRecord(row, headers) ==
    IF Len(row) # Len(headers) THEN NULL
    ELSE IF \A k \in 1..Len(HEADERS) : \E i \in 1..Len(headers) : headers[i] = HEADERS[k]
         THEN [k \in 1..Len(HEADERS) |-> FieldOf(row, headers, HEADERS[k])]
         ELSE NULL

\* raw is the draft of toRecord, indexed as HEADERS
hydrateRecord(raw) ==
    [city |-> raw[1],
     classification |-> raw[2],
     district |-> IF raw[3] = "" THEN NULL ELSE <<raw[3]>>,
     population2020 |-> parseNumber(raw[4]),
     population2015 |-> parseNumber(raw[5]),
     annualGrowthRatePct |-> parseNumber(raw[6]),
     areaKm2 |-> parseNumber(raw[7]),
     densityPerKm2 |-> parseNumber(raw[8]),
     barangays |-> parseNumber(raw[9]),
     provincePopulationSharePct |-> parseNumber(raw[10]),
     sourceUrl |-> raw[11],
     collectedAt |-> raw[12]]

RECURSIVE DemographicRecordsOf(_, _)
DemographicRecordsOf(rows, headers) ==
    IF rows = <<>> THEN <<>>
    ELSE LET raw == toRecord(Head(rows), headers)
             rest == DemographicRecordsOf(Tail(rows), headers)
         IN  IF raw # NULL THEN <<hydrateRecord(raw)>> \o rest ELSE rest

\* the part of loadDemographics after the file has been read
loadDemographics(lines) ==
    LET csv == parseCsv(lines)
    IN  IF Len(csv.headers) = 0 THEN <<>> ELSE DemographicRecordsOf(csv.rows, csv.headers)

\* the lookup falling back to the first record of the table
findDemographicRecordOrFirst(lines, cityArg) ==
    LET records == loadDemographics(lines)
        hits == {i \in 1..Len(records) : ToLowerCase(records[i].city) = ToLowerCase(cityArg)}
    IN  IF hits # {} THEN records[CHOOSE i \in hits : \A j \in hits : i <= j]
        ELSE IF Len(records) > 0 THEN records[1]
        ELSE NULL

findDemographicRecord(lines, cityArg) ==
    LET records == loadDemographics(lines)
        hits == {i \in 1..Len(records) : ToLowerCase(records[i].city) = ToLowerCase(cityArg)}
    IN  IF hits = {} THEN NULL
        ELSE records[CHOOSE i \in hits : \A j \in hits : i <= j]

(***************************************************************************)
(* Snapshot assembler: buildInsightSnapshot after its four loads.          *)
(***************************************************************************)
RECURSIVE SumOf(_)
SumOf(values) == IF values = <<>> THEN 0 ELSE Head(values) + SumOf(Tail(values))

RECURSIVE KnownCurrents(_)
KnownCurrents(weather) ==
    IF weather = <<>> THEN <<>>
    ELSE IF Head(weather).current # NULL
         THEN <<Head(weather).current[1]>> \o KnownCurrents(Tail(weather))
         ELSE KnownCurrents(Tail(weather))

\* Number(avg.toFixed(1)): the mean rounded to a tenth, in thousandths
WeeklyAverage(weather) ==
    LET values == KnownCurrents(weather)
    IN  IF Len(values) = 0 THEN NULL
        ELSE <<100 * MathRound(SumOf(values), 100 * Len(values))>>

\* VULNERABLE_MULTIPLIER[level] ?? 0.2
MultiplierOf(level) ==
    IF level \in DOMAIN VULNERABLE_MULTIPLIER THEN VULNERABLE_MULTIPLIER[level] ELSE 20

VulnerablePopulation(demo, level) ==
    IF demo = NULL THEN NULL
    ELSE IF demo.population2020 = NULL THEN NULL
    ELSE IF demo.population2020[1] = 0 THEN NULL
    ELSE <<MathRound(demo.population2020[1] * MultiplierOf(level), 100)>>

CoolingCenterLoadPct(vulnerable, level) ==
    IF vulnerable = NULL THEN NULL
    ELSE IF vulnerable[1] = 0 THEN NULL
    ELSE <<Min(99, MathRound(40 * 100 + MultiplierOf(level) * 60, 100))>>

CurrentPointOf(entry) ==
    IF entry # NULL /\ entry.current # NULL THEN entry.current
    ELSE IF entry # NULL /\ Len(entry.hourly) > 0 THEN entry.hourly[Len(entry.hourly)]
    ELSE NULL

AssembleSnapshot(cityArg, payload, entry, weather, forecast, demo, now) ==
    LET hourlyPoints == IF entry = NULL THEN <<>> ELSE entry.hourly
        currentPoint == CurrentPointOf(entry)
        risk == classifyRiskLevel(IF currentPoint = NULL THEN NULL
                                  ELSE <<currentPoint.heat_index_c>>)
        peakPoint == computePeakNext24h(hourlyPoints, now)
        vulnerable == VulnerablePopulation(demo, risk.level)
    IN  [city |-> cityArg,
         generatedAt |-> payload.generated_at,
         timezone |-> payload.timezone,
         current |-> currentPoint,
         currentRiskLabel |-> risk.label,
         riskLevel |-> risk.level,
         weeklyAverageHeatIndex |-> WeeklyAverage(weather),
         peakNext24h |-> [value |-> IF peakPoint = NULL THEN NULL ELSE <<peakPoint.heat_index_c>>,
                          timestamp |-> IF peakPoint = NULL THEN NULL ELSE <<peakPoint.timestamp>>],
         highRiskHours24h |-> countHighRiskHours(hourlyPoints, now),
         demographic |-> demo,
         vulnerablePopulation |-> vulnerable,
         coolingCenterLoadPct |-> CoolingCenterLoadPct(vulnerable, risk.level),
         hourlyPoints |-> hourlyPoints,
         weatherHistory |-> weather,
         forecastPoints |-> forecast]

(***************************************************************************)
(* Idle values of the three groups of handler-side variables: a            *)
(* specification about one component leaves the others at rest.            *)
(***************************************************************************)
ClassifyIdle == cValue = NULL /\ cResult = NULL /\ cDescriptor = NULL

WindowIdle ==
    /\ wHourly = <<>>
    /\ wNowPeak = 0
    /\ wNowCount = 0
    /\ wPeak = NULL
    /\ wCount = 0
    /\ wPc = "idle"

HandlerIdle ==
    /\ hourlySrc = [kind |-> "unread"]
    /\ weatherSrc = [kind |-> "unread"]
    /\ forecastSrc = [kind |-> "unread"]
    /\ demoSrc = [kind |-> "unread"]
    /\ clock = 0
    /\ reqCity = NULL
    /\ reqDays = NULL
    /\ pc = "idle"
    /\ city = NULL
    /\ days = 0
    /\ hourlyPayload = NULL
    /\ cityEntry = NULL
    /\ weatherHistory = <<>>
    /\ forecastPoints = <<>>
    /\ demographic = NULL
    /\ snapshot = NULL
    /\ thrown = NULL
    /\ response = NULL

LoaderIdle ==
    /\ lKind = "none"
    /\ lLines = <<>>
    /\ lCity = ""
    /\ lDays = 0
    /\ lNow = 0
    /\ lResult = <<>>
    /\ lPc = "idle"

ColorIdle ==
    /\ kValue = NULL
    /\ kFill = NULL
    /\ kHex = <<>>
    /\ kText = NULL
    /\ kPc = "idle"

CoreIdle == ClassifyIdle /\ WindowIdle /\ HandlerIdle

MapIdle ==
    /\ boundaryCache = <<>>
    /\ layerCache = <<>>
    /\ mapLayers = {}
    /\ view = NULL
    /\ runs = <<>>
    /\ fetchCount = <<>>

PageIdle ==
    /\ selectedCity = ""
    /\ metrics = NULL
    /\ metricsStatus = "idle"
    /\ demographics = <<>>
    /\ demoStatus = "idle"
    /\ metricsRuns = <<>>

AdvisoryIdle ==
    /\ cacheFile = [kind |-> "missing"]
    /\ advClock = 0
    /\ advRequests = <<>>

RestIdle == LoaderIdle /\ ColorIdle /\ MapIdle /\ PageIdle /\ AdvisoryIdle

(***************************************************************************)
(* Specification SpecClassify: classifyRiskLevel and classifyHeatIndex      *)
(* applied to one value, in either order.                                  *)
(***************************************************************************)
\* how far around each cutoff the values are drawn, in thousandths
Span == 20

ClassifyCutoffs == {27000, 32000, 41000, 54000}

ClassifyValues ==
    UNION {(t - Span)..(t + Span) : t \in ClassifyCutoffs} \cup {-5000, 0, 26999, 40999, 53999, 100000}

InitClassify ==
    /\ cValue \in {NULL} \cup {<<v>> : v \in ClassifyValues}
    /\ cResult = NULL
    /\ cDescriptor = NULL
    /\ WindowIdle
    /\ HandlerIdle
    /\ RestIdle

Classify ==
    /\ cResult = NULL
    /\ cResult' = classifyRiskLevel(cValue)
    /\ UNCHANGED <<restVars, cValue, cDescriptor, windowVars, sourceVars, handlerVars>>

ClassifyDashboard ==
    /\ cDescriptor = NULL
    /\ cDescriptor' = classifyHeatIndex(cValue)
    /\ UNCHANGED <<restVars, cValue, cResult, windowVars, sourceVars, handlerVars>>

NextClassify == Classify \/ ClassifyDashboard

SpecClassify == InitClassify /\ [][NextClassify]_vars

(***************************************************************************)
(* Specification SpecWindow: computePeakNext24h and then                   *)
(* countHighRiskHours applied to one series, each reading the clock.       *)
(***************************************************************************)
\* longest freely chosen part of a series
MaxPrefix == 2

\* hourly.slice(-24)
TrailingWindow == 24

WindowStamps ==
    {"1970-01-01T23:59:59.999Z", "1970-01-02T00:00:00.000Z",
     "1970-01-03T00:00:00.000Z", "1970-01-03T00:00:00.001Z",
     "1970-01-04T00:00:00.000Z", "1970-01-04T00:00:00.001Z",
     "1970-01-04T00:00:00.002Z", "not-a-date"}

WindowHeats == {40999, 41000, 45000}

WindowPoints == [timestamp : WindowStamps, heat_index_c : WindowHeats]

\* readings that pad a series beyond the trailing window
FillerPoints ==
    {[timestamp |-> "not-a-date", heat_index_c |-> 30000],
     [timestamp |-> "1970-01-01T23:59:59.999Z", heat_index_c |-> 41000]}

Repeat(x, n) == [i \in 1..n |-> x]

WindowSeries ==
    {prefix \o Repeat(f, k) :
        prefix \in UNION {[1..n -> WindowPoints] : n \in 0..MaxPrefix},
        f \in FillerPoints,
        k \in {0, TrailingWindow - 1, TrailingWindow}}

\* Date.now() of the two calls: the clock may advance between them
WindowClock == {172800000, 172800001}

InitWindow ==
    /\ wHourly \in WindowSeries
    /\ wNowPeak \in WindowClock
    /\ wNowCount \in WindowClock
    /\ wNowPeak <= wNowCount
    /\ wPeak = NULL
    /\ wCount = 0
    /\ wPc = "start"
    /\ ClassifyIdle
    /\ HandlerIdle
    /\ RestIdle

PeakStep ==
    /\ wPc = "start"
    /\ wPeak' = computePeakNext24h(wHourly, wNowPeak)
    /\ wPc' = "peaked"
    /\ UNCHANGED <<restVars, wHourly, wNowPeak, wNowCount, wCount, classifyVars, sourceVars, handlerVars>>

CountStep ==
    /\ wPc = "peaked"
    /\ wCount' = countHighRiskHours(wHourly, wNowCount)
    /\ wPc' = "counted"
    /\ UNCHANGED <<restVars, wHourly, wNowPeak, wNowCount, wPeak, classifyVars, sourceVars, handlerVars>>

NextWindow == PeakStep \/ CountStep

SpecWindow == InitWindow /\ [][NextWindow]_vars


(***************************************************************************)
(* Specification Spec: one request to GET /api/insights/metrics.  Each     *)
(* action is one step of the handler between two awaits; the content of a  *)
(* file is drawn when the file is read.                                    *)
(***************************************************************************)
\* longest hourly series of the locality entry that varies
MaxHourly == 1

RequestCities == {NULL, <<"">>, <<"  ">>, <<" IMUS ">>, <<"Bacoor">>, <<"Tanza">>}

RequestDays ==
    {NULL, <<"">>, <<"0">>, <<"-1">>, <<"2.5">>, <<"5">>, <<"30.9">>, <<"1000000">>,
     <<"Infinity">>, <<"abc">>}

RequestClock == {172800000}

CurrentPoints ==
    {[timestamp |-> "1970-01-03T00:00:00.000Z", heat_index_c |-> h] :
        h \in {26999, 27000, 32000, 41000, 54000}}

MainPoints ==
    [timestamp : {"1970-01-02T12:00:00.000Z", "1970-01-03T12:00:00.000Z"},
     heat_index_c : {30000, 44100}]
    \cup {[timestamp |-> "not-a-date", heat_index_c |-> 44100]}

MainSeries == UNION {[1..n -> MainPoints] : n \in 0..MaxHourly}

OtherEntry ==
    [city |-> "Dasmarinas",
     current |-> [timestamp |-> "1970-01-03T00:00:00.000Z", heat_index_c |-> 54000],
     hourly |-> <<[timestamp |-> "1970-01-02T12:00:00.000Z", heat_index_c |-> 44100]>>]

LocalityEntries ==
    {[city |-> c, current |-> cur, hourly |-> h] :
        c \in {"Imus", "Bacoor"}, cur \in {NULL} \cup CurrentPoints, h \in MainSeries}

HourlyPayloads ==
    {[generated_at |-> <<"1970-01-03T00:00:00.000Z">>, timezone |-> <<"Asia/Manila">>, cities |-> c] :
        c \in {<<>>} \cup {<<OtherEntry, e>> : e \in LocalityEntries}}

\* missing: readFile rejects; badjson: JSON.parse throws; nocities: the
\* document parses to a value without a cities array (null, {}, [])
HourlySources ==
    {[kind |-> "missing"], [kind |-> "badjson"], [kind |-> "nocities"]}
    \cup {[kind |-> "json", value |-> payload] : payload \in HourlyPayloads}

WeatherHeader == <<"city", "date", "apparent_temperature_max", "temperature_2m_max">>

WeatherLines ==
    <<WeatherHeader,
      <<"Imus", "1970-01-01", "35.5", "33">>,
      <<"Dasmarinas", "1970-01-01", "41", "n/a">>,
      <<"imus", "1970-01-02", "", "30.25">>,
      <<"Imus", "1970-01-02", "41">>,
      <<" Imus", "1970-01-03", "41", "35.5">>,
      <<"Imus", "", "41", "41">>,
      <<"IMUS", "1970-01-04", "30.25", "33">>,
      <<"Imus", "1970-01-05", "n/a", "33">>>>

WeatherSources ==
    {[kind |-> "missing"],
     [kind |-> "text", lines |-> <<>>],
     [kind |-> "text", lines |-> <<WeatherHeader>>],
     [kind |-> "text", lines |-> WeatherLines]}

ForecastHeader == <<"city", "date", "heat_index_pred", "heat_index_actual", "residual">>

ForecastLines ==
    <<ForecastHeader,
      <<"Imus", "1970-01-04", "41", "", "">>,
      <<"Dasmarinas", "1970-01-03", "44.1", "", "">>,
      <<"Imus", "1970-01-02", "35.5", "33", "2.9">>,
      <<"Imus", "1970-01-03", "44.1", "41">>,
      <<"IMUS", "1970-01-05", "33", "", "">>,
      <<"Bacoor", "1970-01-02", "30.25", "33", "">>>>

ForecastSources ==
    {[kind |-> "missing"],
     [kind |-> "text", lines |-> <<>>],
     [kind |-> "text", lines |-> ForecastLines]}

PopulationTexts == {"", "0", "3", "100000", "n/a", "about 250"}

DemographicLines(population) ==
    <<HEADERS,
      <<"Dasmarinas", "City", "4th", "100000", "97", "3", "97", "97", "97", "3",
        "https://psa.gov.ph", "1970-01-01">>,
      <<"Imus", "City", "3rd", "97">>,
      <<"Imus", "City", "", population, "97", "3", "97", "97", "97", "3",
        "https://psa.gov.ph", "1970-01-01">>>>

DemographicSources ==
    {[kind |-> "missing"], [kind |-> "text", lines |-> <<>>]}
    \cup {[kind |-> "text", lines |-> DemographicLines(p)] : p \in PopulationTexts}

Init ==
    /\ ClassifyIdle
    /\ WindowIdle
    /\ HandlerIdle
    /\ RestIdle

\* the window without the upper clamp
ClampDaysNoCeiling(daysParam) ==
    IF NumberIsFinite(daysParam) THEN Max(MathFloor(daysParam), 3) ELSE 7

\* route.ts GET, line 8: daysParam is Number(...) in tenths
ClampDays(daysParam) ==
    IF NumberIsFinite(daysParam) THEN Min(Max(MathFloor(daysParam), 3), 30) ELSE 7

\* route.ts GET, lines 5-12: read the parameters, reject a request without city
Receive ==
    /\ pc = "idle"
    /\ \E c \in RequestCities, d \in RequestDays, now \in RequestClock :
          LET trimmed == IF c = NULL THEN NULL ELSE <<Trim(c[1])>>
              window == ClampDays(NumberOfParam(d))
          IN  /\ reqCity' = c
              /\ reqDays' = d
              /\ clock' = now
              /\ city' = trimmed
              /\ days' = window
              /\ IF trimmed = NULL \/ trimmed = <<"">>
                 THEN /\ response' = [status |-> 400,
                                      body |-> [error |-> "city query parameter is required"]]
                      /\ pc' = "responded"
                 ELSE /\ response' = response
                      /\ pc' = "readHourly"
    /\ UNCHANGED <<restVars, classifyVars, windowVars, hourlySrc, weatherSrc, forecastSrc, demoSrc,
                   hourlyPayload, cityEntry, weatherHistory, forecastPoints, demographic,
                   snapshot, thrown>>

\* buildInsightSnapshot, lines 275-276: parseJsonFile and findHourlyEntry
LoadHourly ==
    /\ pc = "readHourly"
    /\ \E src \in HourlySources :
          /\ hourlySrc' = src
          /\ IF src.kind \in {"missing", "badjson"}
             THEN /\ thrown' = <<"parseJsonFile">>
                  /\ pc' = "catch"
                  /\ UNCHANGED <<hourlyPayload, cityEntry>>
             ELSE IF src.kind = "nocities"
             THEN /\ thrown' = <<"findHourlyEntry">>
                  /\ pc' = "catch"
                  /\ UNCHANGED <<hourlyPayload, cityEntry>>
             ELSE /\ hourlyPayload' = src.value
                  /\ cityEntry' = findHourlyEntry(src.value, city[1])
                  /\ pc' = "readWeather"
                  /\ UNCHANGED thrown
    /\ UNCHANGED <<restVars, classifyVars, windowVars, weatherSrc, forecastSrc, demoSrc, clock, reqCity,
                   reqDays, city, days, weatherHistory, forecastPoints, demographic,
                   snapshot, response>>

\* the weather load answering an unreadable file with an empty series
LoadWeatherHistoryLenient ==
    /\ pc = "readWeather"
    /\ \E src \in WeatherSources :
          /\ weatherSrc' = src
          /\ weatherHistory' = IF src.kind = "missing" THEN <<>>
                               ELSE loadWeatherHistory(src.lines, city[1], days)
          /\ pc' = "readForecast"
          /\ UNCHANGED thrown
    /\ UNCHANGED <<restVars, classifyVars, windowVars, hourlySrc, forecastSrc, demoSrc, clock, reqCity,
                   reqDays, city, days, hourlyPayload, cityEntry, forecastPoints, demographic,
                   snapshot, response>>

\* buildInsightSnapshot, line 277
LoadWeatherHistory ==
    /\ pc = "readWeather"
    /\ \E src \in WeatherSources :
          /\ weatherSrc' = src
          /\ IF src.kind = "missing"
             THEN /\ thrown' = <<"loadWeatherHistory">>
                  /\ pc' = "catch"
                  /\ UNCHANGED weatherHistory
             ELSE /\ weatherHistory' = loadWeatherHistory(src.lines, city[1], days)
                  /\ pc' = "readForecast"
                  /\ UNCHANGED thrown
    /\ UNCHANGED <<restVars, classifyVars, windowVars, hourlySrc, forecastSrc, demoSrc, clock, reqCity,
                   reqDays, city, days, hourlyPayload, cityEntry, forecastPoints, demographic,
                   snapshot, response>>

\* buildInsightSnapshot, line 278
LoadForecastSeries ==
    /\ pc = "readForecast"
    /\ \E src \in ForecastSources :
          /\ forecastSrc' = src
          /\ IF src.kind = "missing"
             THEN /\ thrown' = <<"loadForecastSeries">>
                  /\ pc' = "catch"
                  /\ UNCHANGED forecastPoints
             ELSE /\ forecastPoints' = loadForecastSeries(src.lines, city[1], days, clock)
                  /\ pc' = "readDemographics"
                  /\ UNCHANGED thrown
    /\ UNCHANGED <<restVars, classifyVars, windowVars, hourlySrc, weatherSrc, demoSrc, clock, reqCity,
                   reqDays, city, days, hourlyPayload, cityEntry, weatherHistory, demographic,
                   snapshot, response>>

\* buildInsightSnapshot, line 279
FindDemographicRecord ==
    /\ pc = "readDemographics"
    /\ \E src \in DemographicSources :
          /\ demoSrc' = src
          /\ IF src.kind = "missing"
             THEN /\ thrown' = <<"findDemographicRecord">>
                  /\ pc' = "catch"
                  /\ UNCHANGED demographic
             ELSE /\ demographic' = findDemographicRecord(src.lines, city[1])
                  /\ pc' = "derive"
                  /\ UNCHANGED thrown
    /\ UNCHANGED <<restVars, classifyVars, windowVars, hourlySrc, weatherSrc, forecastSrc, clock, reqCity,
                   reqDays, city, days, hourlyPayload, cityEntry, weatherHistory,
                   forecastPoints, snapshot, response>>

\* buildInsightSnapshot, lines 281-337
BuildSnapshot ==
    /\ pc = "derive"
    /\ snapshot' = AssembleSnapshot(city[1], hourlyPayload, cityEntry, weatherHistory,
                                    forecastPoints, demographic, clock)
    /\ pc' = "built"
    /\ UNCHANGED <<restVars, classifyVars, windowVars, sourceVars, city, days, hourlyPayload, cityEntry,
                   weatherHistory, forecastPoints, demographic, thrown, response>>

\* route.ts GET, line 16
RespondSnapshot ==
    /\ pc = "built"
    /\ response' = [status |-> 200, body |-> snapshot]
    /\ pc' = "responded"
    /\ UNCHANGED <<restVars, classifyVars, windowVars, sourceVars, city, days, hourlyPayload, cityEntry,
                   weatherHistory, forecastPoints, demographic, snapshot, thrown>>

\* route.ts GET, lines 17-20
RespondError ==
    /\ pc = "catch"
    /\ response' = [status |-> 500, body |-> [error |-> "Unable to build insights snapshot"]]
    /\ pc' = "responded"
    /\ UNCHANGED <<restVars, classifyVars, windowVars, sourceVars, city, days, hourlyPayload, cityEntry,
                   weatherHistory, forecastPoints, demographic, snapshot, thrown>>

Next ==
    \/ Receive
    \/ LoadHourly
    \/ LoadWeatherHistory
    \/ LoadForecastSeries
    \/ FindDemographicRecord
    \/ BuildSnapshot
    \/ RespondSnapshot
    \/ RespondError

Spec == Init /\ [][Next]_vars

(***************************************************************************)
(* Properties of the risk classifier (SpecClassify)                        *)
(***************************************************************************)
\* the severity bands as the specification tabulates them
InBand(level, v) ==
    CASE level = "extreme" -> v >= 54000
      [] level = "high" -> 41000 <= v /\ v < 54000
      [] level = "moderate" -> 32000 <= v /\ v < 41000
      [] level = "caution" -> 27000 <= v /\ v < 32000
      [] level = "comfort" -> v < 27000
      [] OTHER -> FALSE

\* C1: classifyRiskLevel returns unknown for the absent value and, for a
\* number, the one level whose band holds it; every cutoff belongs to the
\* more severe band and no value is in two bands.
C1_ClassifyBands ==
    cResult # NULL =>
        /\ cResult.level \in RiskLevels
        /\ cResult.label = RISK_LABELS[cResult.level]
        /\ cValue = NULL => cResult.level = "unknown"
        /\ cValue # NULL =>
              /\ InBand(cResult.level, cValue[1])
              /\ \A other \in RiskLevels : InBand(other, cValue[1]) => other = cResult.level

C1_Witness ==
    /\ cResult # NULL
    /\ cValue = <<41000>>
    /\ cResult.level = "high"

(***************************************************************************)
(* Properties of the peak / window analyzers (SpecWindow)                  *)
(***************************************************************************)
ParseableStamp(point) == NumberIsFinite(DateParse(point.timestamp))

\* positions of the readings stamped within [now, now + 24h]
ForwardPositions(hourly, now) ==
    {i \in 1..Len(hourly) :
        /\ ParseableStamp(hourly[i])
        /\ now <= DateParse(hourly[i].timestamp)
        /\ DateParse(hourly[i].timestamp) <= now + DayMs}

\* positions the peak is taken over: the forward window, else the trailing 24
PeakPositions(hourly, now) ==
    IF ForwardPositions(hourly, now) # {}
    THEN ForwardPositions(hourly, now)
    ELSE {i \in 1..Len(hourly) : i > Len(hourly) - TrailingWindow}

\* C8: computePeakNext24h returns null iff the series is empty; otherwise the
\* first reading of maximal value among the readings stamped in
\* [now, now+24h], or among the trailing 24 readings when there is none.
C8_PeakFirstMaximum ==
    wPc \in {"peaked", "counted"} =>
        /\ (wPeak = NULL) <=> (wHourly = <<>>)
        /\ wHourly # <<>> =>
              \E i \in PeakPositions(wHourly, wNowPeak) :
                  /\ wPeak = wHourly[i]
                  /\ \A j \in PeakPositions(wHourly, wNowPeak) :
                        /\ wHourly[j].heat_index_c <= wHourly[i].heat_index_c
                        /\ wHourly[j].heat_index_c = wHourly[i].heat_index_c => i <= j

\* a series longer than 24 without forward readings, whose overall maximum
\* lies before the trailing window, and whose peak value occurs twice
C8_Witness ==
    /\ wPc = "peaked"
    /\ Len(wHourly) > TrailingWindow
    /\ ForwardPositions(wHourly, wNowPeak) = {}
    /\ wPeak # NULL
    /\ \E i \in 1..Len(wHourly) :
          /\ i <= Len(wHourly) - TrailingWindow
          /\ wHourly[i].heat_index_c > wPeak.heat_index_c
    /\ \E j, k \in PeakPositions(wHourly, wNowPeak) :
          /\ j < k
          /\ wHourly[j].heat_index_c = wPeak.heat_index_c
          /\ wHourly[k].heat_index_c = wPeak.heat_index_c

\* C9: both analyzers ignore readings whose timestamp fails to parse: the
\* peak is never such a reading and equals the peak of the series without
\* them, and the count equals the count of the series without them.
C9_UnparseableIgnored ==
    /\ wPc \in {"peaked", "counted"} =>
          /\ wPeak # NULL => ParseableStamp(wPeak)
          /\ wPeak = computePeakNext24h(SelectSeq(wHourly, ParseableStamp), wNowPeak)
    /\ wPc = "counted" =>
          wCount = countHighRiskHours(SelectSeq(wHourly, ParseableStamp), wNowCount)

\* positions of the readings stamped within [now - 24h, now] with value >= 41
HighRiskPositions(hourly, now) ==
    {i \in 1..Len(hourly) :
        /\ ParseableStamp(hourly[i])
        /\ now - DayMs <= DateParse(hourly[i].timestamp)
        /\ DateParse(hourly[i].timestamp) <= now
        /\ hourly[i].heat_index_c >= 41000}

\* C10: countHighRiskHours is the number of readings stamped within
\* [now-24h, now] whose value is at least 41.
C10_CountHighRisk ==
    wPc = "counted" => wCount = Cardinality(HighRiskPositions(wHourly, wNowCount))

\* one reading of value 41 stamped exactly at the lookback bound is counted;
\* readings of value >= 41 stamped after now and before the bound are not
C10_Witness ==
    /\ wPc = "counted"
    /\ wCount = 1
    /\ \E i \in HighRiskPositions(wHourly, wNowCount) :
          /\ wHourly[i].heat_index_c = 41000
          /\ DateParse(wHourly[i].timestamp) = wNowCount - DayMs
    /\ \E i \in 1..Len(wHourly) :
          /\ wHourly[i].heat_index_c >= 41000
          /\ ParseableStamp(wHourly[i])
          /\ DateParse(wHourly[i].timestamp) > wNowCount
    /\ \E i \in 1..Len(wHourly) :
          /\ wHourly[i].heat_index_c >= 41000
          /\ ParseableStamp(wHourly[i])
          /\ DateParse(wHourly[i].timestamp) < wNowCount - DayMs

(***************************************************************************)
(* Properties of the snapshot assembler and the metrics endpoint (Spec)    *)
(***************************************************************************)
\* a load has been performed and hard-failed
HardFailed ==
    \/ hourlySrc.kind \in {"missing", "badjson", "nocities"}
    \/ weatherSrc.kind = "missing"
    \/ forecastSrc.kind = "missing"
    \/ demoSrc.kind = "missing"

\* C2: once one of the four loads has hard-failed, assembly is aborted with
\* an error, no snapshot (full or partial) exists, and the only response
\* the endpoint gives is the 500 error.
C2_HardFailureAborts ==
    HardFailed =>
        /\ thrown # NULL
        /\ snapshot = NULL
        /\ pc \in {"catch", "responded"}
        /\ pc = "responded" <=> response # NULL
        /\ response # NULL =>
              /\ response.status = 500
              /\ response.body = [error |-> "Unable to build insights snapshot"]

\* the third load fails after the first two delivered data for the locality
C2_Witness ==
    /\ pc = "responded"
    /\ hourlySrc.kind = "json"
    /\ cityEntry # NULL
    /\ Len(weatherHistory) > 0
    /\ forecastSrc.kind = "missing"
    /\ response.status = 500

\* no field of any line of the text is the locality, whatever its case
NoRowFor(src, cityArg) ==
    /\ src.kind = "text"
    /\ \A i \in 1..Len(src.lines) : \A k \in 1..Len(src.lines[i]) :
          ToLowerCase(Trim(src.lines[i][k])) # ToLowerCase(cityArg)

NoEntryFor(src, cityArg) ==
    /\ src.kind = "json"
    /\ \A i \in 1..Len(src.value.cities) :
          ToLowerCase(src.value.cities[i].city) # ToLowerCase(cityArg)

\* C3: when all four sources are readable and well-formed and none has a row
\* or entry for the locality, assembly does not fail and the snapshot has
\* level unknown, no current reading, empty series, a null peak, a null
\* weekly average and zero high-risk hours.
C3_NoRowsGivesUnknown ==
    ( /\ NoEntryFor(hourlySrc, city[1])
      /\ NoRowFor(weatherSrc, city[1])
      /\ NoRowFor(forecastSrc, city[1])
      /\ NoRowFor(demoSrc, city[1]) ) =>
        /\ thrown = NULL
        /\ pc \in {"derive", "built", "responded"}
        /\ pc # "derive" =>
              /\ snapshot # NULL
              /\ snapshot.riskLevel = "unknown"
              /\ snapshot.current = NULL
              /\ snapshot.hourlyPoints = <<>>
              /\ snapshot.weatherHistory = <<>>
              /\ snapshot.forecastPoints = <<>>
              /\ snapshot.peakNext24h = [value |-> NULL, timestamp |-> NULL]
              /\ snapshot.weeklyAverageHeatIndex = NULL
              /\ snapshot.highRiskHours24h = 0
        /\ pc = "responded" => response = [status |-> 200, body |-> snapshot]

\* every source holds rows of other localities, none of the requested one
C3_Witness ==
    /\ pc = "responded"
    /\ city = <<"Tanza">>
    /\ NoEntryFor(hourlySrc, "Tanza") /\ Len(hourlySrc.value.cities) > 0
    /\ NoRowFor(weatherSrc, "Tanza") /\ Len(weatherSrc.lines) > 1
    /\ NoRowFor(forecastSrc, "Tanza") /\ Len(forecastSrc.lines) > 1
    /\ NoRowFor(demoSrc, "Tanza") /\ Len(demoSrc.lines) > 1
    /\ response.status = 200
    /\ response.body.riskLevel = "unknown"

\* the fields of a snapshot derived from the hourly series
TimeSeriesFields(snap) ==
    [current |-> snap.current, riskLevel |-> snap.riskLevel,
     peakNext24h |-> snap.peakNext24h, highRiskHours24h |-> snap.highRiskHours24h,
     hourlyPoints |-> snap.hourlyPoints]

\* demographic records a locality could have had
PossibleDemographics ==
    {findDemographicRecord(DemographicLines(p), "Imus") : p \in PopulationTexts}

\* C4: for a locality with hourly readings and no demographic row, the
\* snapshot has demographic, vulnerablePopulation and coolingCenterLoadPct
\* null, and current, riskLevel, peakNext24h, highRiskHours24h and
\* hourlyPoints are populated and equal to what assembly gives with any
\* demographic record in place of the missing one.
C4_MissingDemographicFrame ==
    ( /\ snapshot # NULL
      /\ cityEntry # NULL
      /\ Len(cityEntry.hourly) > 0
      /\ NoRowFor(demoSrc, city[1]) ) =>
        /\ snapshot.demographic = NULL
        /\ snapshot.vulnerablePopulation = NULL
        /\ snapshot.coolingCenterLoadPct = NULL
        /\ snapshot.current # NULL
        /\ snapshot.riskLevel # "unknown"
        /\ snapshot.peakNext24h.value # NULL
        /\ snapshot.hourlyPoints = cityEntry.hourly
        /\ \A demo \in PossibleDemographics :
              TimeSeriesFields(snapshot) =
                  TimeSeriesFields(AssembleSnapshot(city[1], hourlyPayload, cityEntry,
                                                    weatherHistory, forecastPoints, demo, clock))

\* Bacoor has an hourly entry with readings, the census table has rows of
\* other localities only
C4_Witness ==
    /\ pc = "responded"
    /\ city = <<"Bacoor">>
    /\ cityEntry # NULL
    /\ Len(cityEntry.hourly) > 0
    /\ NoRowFor(demoSrc, "Bacoor") /\ Len(demoSrc.lines) > 1
    /\ response.status = 200
    /\ response.body.demographic = NULL
    /\ response.body.riskLevel = "high"
    /\ response.body.highRiskHours24h = 1

PopulationKnown == demographic # NULL /\ demographic.population2020 # NULL

\* C5: in every snapshot, for every risk level and every known population P
\* (0 included), vulnerablePopulation = round(P * multiplier[level]), and
\* vulnerablePopulation is null exactly when the population is unknown.
C5_VulnerablePopulation ==
    snapshot # NULL =>
        /\ PopulationKnown =>
              snapshot.vulnerablePopulation =
                  <<MathRound(demographic.population2020[1]
                              * VULNERABLE_MULTIPLIER[snapshot.riskLevel], 100)>>
        /\ (snapshot.vulnerablePopulation = NULL) <=> ~PopulationKnown

\* C6: in every snapshot, whenever the population is known
\* coolingCenterLoadPct = min(99, round(40 + multiplier[level] * 60)); it is
\* null only when the population is unknown, never null while
\* vulnerablePopulation is a number, and never above 99.
C6_CoolingCenterLoad ==
    snapshot # NULL =>
        /\ PopulationKnown =>
              snapshot.coolingCenterLoadPct =
                  <<Min(99, MathRound(4000 + VULNERABLE_MULTIPLIER[snapshot.riskLevel] * 60, 100))>>
        /\ snapshot.coolingCenterLoadPct = NULL => ~PopulationKnown
        /\ snapshot.vulnerablePopulation # NULL => snapshot.coolingCenterLoadPct # NULL
        /\ snapshot.coolingCenterLoadPct # NULL => snapshot.coolingCenterLoadPct[1] <= 99

\* position of a level in the severity order of RiskLevel
SeverityRank ==
    [unknown |-> 0, comfort |-> 1, caution |-> 2, moderate |-> 3, high |-> 4, extreme |-> 5]

\* C7 as stated: the multiplier of the snapshot's level lies in [0.08, 0.72],
\* is not 0, and no level at least as severe in the order unknown, comfort,
\* caution, moderate, high, extreme has a smaller multiplier.
C7_MonotoneFromUnknown ==
    snapshot # NULL =>
        /\ VULNERABLE_MULTIPLIER[snapshot.riskLevel] \in 8..72
        /\ \A other \in RiskLevels :
              SeverityRank[other] >= SeverityRank[snapshot.riskLevel]
                  => VULNERABLE_MULTIPLIER[other] >= VULNERABLE_MULTIPLIER[snapshot.riskLevel]

\* C7 amended: the multiplier of the snapshot's level lies in [0.08, 0.72]
\* and is not 0; among the five known levels comfort, caution, moderate,
\* high, extreme a more severe level has a larger multiplier; the multiplier
\* of unknown (0.12) lies strictly between those of comfort and caution.
C7_MonotoneKnownLevels ==
    snapshot # NULL =>
        /\ VULNERABLE_MULTIPLIER[snapshot.riskLevel] \in 8..72
        /\ VULNERABLE_MULTIPLIER[snapshot.riskLevel] # 0
        /\ \A other \in RiskLevels \ {"unknown"} :
              ( /\ snapshot.riskLevel # "unknown"
                /\ SeverityRank[other] > SeverityRank[snapshot.riskLevel] )
                  => VULNERABLE_MULTIPLIER[other] > VULNERABLE_MULTIPLIER[snapshot.riskLevel]
        /\ snapshot.riskLevel = "unknown" =>
              /\ VULNERABLE_MULTIPLIER.comfort < VULNERABLE_MULTIPLIER.unknown
              /\ VULNERABLE_MULTIPLIER.unknown < VULNERABLE_MULTIPLIER.caution

\* a snapshot of level caution whose estimate used the multiplier 0.18
C7_Witness ==
    /\ snapshot # NULL
    /\ snapshot.riskLevel = "caution"
    /\ PopulationKnown
    /\ demographic.population2020 = <<100000>>
    /\ snapshot.vulnerablePopulation = <<18000>>


(***************************************************************************)
(* Properties of the request parameters (Spec)                             *)
(***************************************************************************)
\* the handler went past its parameter check and called buildInsightSnapshot
Invoked == pc \in {"readHourly", "readWeather", "readForecast", "readDemographics",
                   "derive", "built", "catch"} \/ (pc = "responded" /\ response.status # 400)

\* C11: a request without a days parameter, or with an empty one, is
\* assembled with the default window, 7.
C11_DefaultWindow ==
    (Invoked /\ (reqDays = NULL \/ reqDays = <<"">>)) => days = 7

\* C12: whatever the days parameter is, the window handed to
\* buildInsightSnapshot is an integer between 3 and 30.
C12_WindowClamped ==
    Invoked => days \in 3..30

\* a fractional parameter above the ceiling's floor: 30.9 gives 30
C12_Witness ==
    /\ pc = "built"
    /\ reqDays = <<"30.9">>
    /\ days = 30

\* C13: a request whose city is absent, empty or only whitespace is answered
\* 400 with a message, buildInsightSnapshot is not invoked and no dataset is
\* read.
C13_MissingCityRejected ==
    (pc # "idle" /\ reqCity \in {NULL, <<"">>, <<"  ">>}) =>
        /\ ~Invoked
        /\ pc = "responded"
        /\ response = [status |-> 400, body |-> [error |-> "city query parameter is required"]]
        /\ hourlySrc.kind = "unread"
        /\ weatherSrc.kind = "unread"
        /\ forecastSrc.kind = "unread"
        /\ demoSrc.kind = "unread"
        /\ snapshot = NULL
        /\ thrown = NULL

C13_Witness ==
    /\ pc = "responded"
    /\ reqCity = <<"  ">>
    /\ response.status = 400
    /\ hourlySrc.kind = "unread"

\* C16: in every snapshot, every element of hourlyPoints and the reading
\* reported as current have a timestamp that parses.
C16_ParseableReadings ==
    snapshot # NULL =>
        /\ \A i \in 1..Len(snapshot.hourlyPoints) : ParseableStamp(snapshot.hourlyPoints[i])
        /\ snapshot.current # NULL => ParseableStamp(snapshot.current)

(***************************************************************************)
(* Specification SpecLoad: one call of loadWeatherHistory or of            *)
(* loadForecastSeries on a dataset file of a few rows.                     *)
(***************************************************************************)
\* rows of the file below the header
MaxRows == 3

LoaderDays == {1, 2, 3}

\* midnight and midday of 1970-01-03
LoaderClock == {172800000, 216000000}

LoaderCities == {"Imus", "IMUS", "Tanza"}

WeatherRowChoices ==
    {<<"Imus", "1970-01-01", "35.5", "33">>,
     <<"IMUS", "1970-01-02", "41", "33">>,
     <<" Imus", "1970-01-03", "", "30.25">>,
     <<"Bacoor", "1970-01-04", "41", "41">>,
     <<"Imus", "1970-01-02", "41">>,
     <<"  ", "1970-01-02", "41", "41">>,
     <<"Imus", "", "41", "41">>}

ForecastRowChoices ==
    {<<"Imus", d, "41", "", "">> :
        d \in {"1970-01-01", "1970-01-02", "1970-01-03", "1970-01-04", "1970-01-05", "n/a"}}
    \cup {<<"Bacoor", "1970-01-04", "33", "", "">>,
          <<"Imus", "1970-01-04", "33">>}

RowsUpTo(choices) == UNION {[1..n -> choices] : n \in 0..MaxRows}

InitLoad ==
    /\ lKind \in {"weather", "forecast"}
    /\ \/ lLines = <<>>
       \/ /\ lKind = "weather"
          /\ \E rows \in RowsUpTo(WeatherRowChoices) : lLines = <<WeatherHeader>> \o rows
       \/ /\ lKind = "forecast"
          /\ \E rows \in RowsUpTo(ForecastRowChoices) : lLines = <<ForecastHeader>> \o rows
    /\ lCity \in LoaderCities
    /\ lDays \in LoaderDays
    /\ lNow \in LoaderClock
    /\ lResult = <<>>
    /\ lPc = "start"
    /\ CoreIdle
    /\ PageIdle
    /\ AdvisoryIdle
    /\ ColorIdle
    /\ MapIdle

LoadWeather ==
    /\ lPc = "start"
    /\ lKind = "weather"
    /\ lResult' = loadWeatherHistory(lLines, lCity, lDays)
    /\ lPc' = "loaded"
    /\ UNCHANGED <<lKind, lLines, lCity, lDays, lNow, exceptLoaderVars>>

LoadForecast ==
    /\ lPc = "start"
    /\ lKind = "forecast"
    /\ lResult' = loadForecastSeries(lLines, lCity, lDays, lNow)
    /\ lPc' = "loaded"
    /\ UNCHANGED <<lKind, lLines, lCity, lDays, lNow, exceptLoaderVars>>

NextLoad == LoadWeather \/ LoadForecast

SpecLoad == InitLoad /\ [][NextLoad]_vars

(***************************************************************************)
(* Properties of the loaders (SpecLoad)                                    *)
(***************************************************************************)
\* the m-th smallest element of a set of positions
NthOf(positions, m) ==
    CHOOSE i \in positions : Cardinality({x \in positions : x <= i}) = m

\* positions of the lines that have the header's field count, a city and a
\* date, and the requested city but for case
KeptRows ==
    {i \in 2..Len(lLines) :
        /\ Len(lLines[i]) = Len(lLines[1])
        /\ Trim(lLines[i][1]) # ""
        /\ Trim(lLines[i][2]) # ""
        /\ ToLowerCase(Trim(lLines[i][1])) = ToLowerCase(lCity)}

\* C15: loadWeatherHistory returns exactly the last min(days, k) of the k rows
\* that have the header's field count, a city and a date and the requested
\* city (case ignored), in source order.
C15_WeatherLastRows ==
    (lPc = "loaded" /\ lKind = "weather") =>
        LET k == Cardinality(KeptRows)
            n == Min(lDays, k)
        IN  /\ Len(lResult) = n
            /\ \A j \in 1..n :
                   LET row == lLines[NthOf(KeptRows, k - n + j)]
                   IN  /\ lResult[j].city = Trim(row[1])
                       /\ lResult[j].date = Trim(row[2])
                       /\ lResult[j].current = toNumber(Trim(row[3]))
                       /\ lResult[j].average = toNumber(Trim(row[4]))

\* more kept rows than days, with a ragged row or a row of another locality
\* between two kept rows
C15_Witness ==
    /\ lPc = "loaded"
    /\ lKind = "weather"
    /\ Cardinality(KeptRows) > lDays
    /\ Len(lResult) = lDays
    /\ \E i \in 2..Len(lLines) :
           /\ i \notin KeptRows
           /\ Len(lLines[i]) # Len(lLines[1]) \/ lLines[i][1] = "Bacoor"
           /\ \E a, b \in KeptRows : a < i /\ i < b

\* instants of the forecast points of the requested city, by line position
ForecastTimeAt(i) == DateParse(Trim(lLines[i][2]))

UpcomingRows ==
    {i \in KeptRows : NumberIsFinite(ForecastTimeAt(i)) /\ ForecastTimeAt(i) >= TodayStart(lNow)}

ResultTime(j) == DateParse(lResult[j].date)

\* the kept rows whose date is the date of no returned point
LeftOut(rows) == {i \in rows : \A j \in 1..Len(lResult) : lResult[j].date # Trim(lLines[i][2])}

\* C14: with a point on or after the start of today, loadForecastSeries
\* returns only such points, at most days of them, ascending from the earliest
\* upcoming one; without one it returns the at most days most recent past
\* points; without any point it returns the empty series.
C14_ForecastWindow ==
    (lPc = "loaded" /\ lKind = "forecast") =>
        IF UpcomingRows # {}
        THEN /\ Len(lResult) = Min(lDays, Cardinality(UpcomingRows))
             /\ \A j \in 1..Len(lResult) :
                    NumberIsFinite(ResultTime(j)) /\ ResultTime(j) >= TodayStart(lNow)
             /\ \A j \in 1..(Len(lResult) - 1) : ResultTime(j) <= ResultTime(j + 1)
             /\ \A i \in UpcomingRows : ResultTime(1) <= ForecastTimeAt(i)
             /\ \A i \in LeftOut(UpcomingRows) : ResultTime(Len(lResult)) <= ForecastTimeAt(i)
        ELSE /\ Len(lResult) = Min(lDays, Cardinality(KeptRows))
             /\ \A j \in 1..Len(lResult) :
                    NumberIsFinite(ResultTime(j)) /\ ResultTime(j) < TodayStart(lNow)
             /\ \A j \in 1..(Len(lResult) - 1) : ResultTime(j) <= ResultTime(j + 1)
             /\ \A i \in LeftOut(KeptRows) : ForecastTimeAt(i) <= ResultTime(1)

\* the claim on the files all of whose dates parse
C14_ParseableDatesOnly ==
    (\A i \in KeptRows : NumberIsFinite(ForecastTimeAt(i))) => C14_ForecastWindow

(***************************************************************************)
(* Color scale (heat-index-colors.ts).  A hex color is held as the         *)
(* sequence of its hex digits after the "#"; heat index values are in      *)
(* tenths of a degree, so a ratio is the pair of a numerator and a span.   *)
(***************************************************************************)
HEAT_INDEX_COLOR_STOPS ==
    <<[value |-> 200, color |-> <<0, 14, 10, 5, 14, 9>>],
      [value |-> 260, color |-> <<2, 2, 13, 3, 14, 14>>],
      [value |-> 300, color |-> <<15, 10, 12, 12, 1, 5>>],
      [value |-> 340, color |-> <<15, 9, 7, 3, 1, 6>>],
      [value |-> 400, color |-> <<15, 11, 9, 2, 3, 12>>],
      [value |-> 460, color |-> <<14, 15, 4, 4, 4, 4>>],
      [value |-> 550, color |-> <<7, 15, 1, 13, 1, 13>>]>>

\* "#475569"
DEFAULT_HEAT_COLOR == <<4, 7, 5, 5, 6, 9>>

\* Number.parseInt(sanitized, 16)
RECURSIVE ParseHex(_)
ParseHex(digits) ==
    IF digits = <<>> THEN 0
    ELSE 16 * ParseHex(SubSeq(digits, 1, Len(digits) - 1)) + digits[Len(digits)]

hexToRgb(hex) ==
    IF Len(hex) # 6 THEN [r |-> 71, g |-> 85, b |-> 105]
    ELSE LET value == ParseHex(hex)
         IN  [r |-> (value \div 65536) % 256,
              g |-> (value \div 256) % 256,
              b |-> value % 256]

\* clamp(channel).toString(16).padStart(2, "0") of the channel n / d
HexPair(n, d) ==
    LET clamped == Max(0, Min(255, MathRound(n, d)))
    IN  <<clamped \div 16, clamped % 16>>

\* rgb channels are handed over as numerators over the common denominator d
rgbToHex(rgb, d) == HexPair(rgb.r, d) \o HexPair(rgb.g, d) \o HexPair(rgb.b, d)

\* channels cut off instead of rounded
interpolateColorsTruncated(colorA, colorB, num, span) ==
    LET a == hexToRgb(colorA)
        b == hexToRgb(colorB)
        cut(x, y) == LET c == (x * span + (y - x) * num) \div span
                     IN  <<c \div 16, c % 16>>
    IN  cut(a.r, b.r) \o cut(a.g, b.g) \o cut(a.b, b.b)

\* ratio = num / span; mixChannel(a, b) = a + (b - a) * ratio
interpolateColors(colorA, colorB, num, span) ==
    LET a == hexToRgb(colorA)
        b == hexToRgb(colorB)
        mixChannel(x, y) == x * span + (y - x) * num
    IN  rgbToHex([r |-> mixChannel(a.r, b.r), g |-> mixChannel(a.g, b.g),
                  b |-> mixChannel(a.b, b.b)], span)

heatIndexColor(value) ==
    LET stops == HEAT_INDEX_COLOR_STOPS
        last == stops[Len(stops)]
    IN  IF value = NULL \/ value = <<NaN>> THEN DEFAULT_HEAT_COLOR
        ELSE IF value[1] <= stops[1].value THEN stops[1].color
        ELSE IF value[1] >= last.value THEN last.color
        ELSE LET hits == {i \in 1..(Len(stops) - 1) :
                             value[1] >= stops[i].value /\ value[1] <= stops[i + 1].value}
             IN  IF hits = {} THEN DEFAULT_HEAT_COLOR
                 ELSE LET index == CHOOSE i \in hits : \A j \in hits : i <= j
                          span == stops[index + 1].value - stops[index].value
                      IN  IF span = 0
                          THEN interpolateColors(stops[index].color, stops[index + 1].color, 0, 1)
                          ELSE interpolateColors(stops[index].color, stops[index + 1].color,
                                                 value[1] - stops[index].value, span)

\* dark text from a luminance of 0.6 on
pickTextColorInclusive(hex) ==
    LET rgb == hexToRgb(hex)
    IN  IF 299 * rgb.r + 587 * rgb.g + 114 * rgb.b >= 153000 THEN "#0f172a" ELSE "#ffffff"

\* luminance = (0.299 r + 0.587 g + 0.114 b) / 255 > 0.6, times 255000
pickTextColor(hex) ==
    LET rgb == hexToRgb(hex)
    IN  IF 299 * rgb.r + 587 * rgb.g + 114 * rgb.b > 153000 THEN "#0f172a" ELSE "#ffffff"

(***************************************************************************)
(* Specification SpecColor: heatIndexColor applied to one value, then      *)
(* pickTextColor applied to one color.                                     *)
(***************************************************************************)
\* how far below the first and above the last stop the values go, in tenths
ColorMargin == 20

\* how far around the luminance threshold the grays go
GraySpan == 3

ColorValues == (200 - ColorMargin)..(550 + ColorMargin) \cup {-50, 0, 1000}

GrayHex(n) == <<n \div 16, n % 16, n \div 16, n % 16, n \div 16, n % 16>>

TextInputs ==
    {GrayHex(n) : n \in (153 - GraySpan)..(153 + GraySpan)}
    \cup {GrayHex(0), GrayHex(255), DEFAULT_HEAT_COLOR, <<15, 15, 15>>,
          <<9, 9, 9, 9, 9, 7>>, <<9, 9, 9, 9, 9, 11>>, <<7, 3, 11, 15, 3, 9>>}
    \cup {HEAT_INDEX_COLOR_STOPS[i].color : i \in 1..Len(HEAT_INDEX_COLOR_STOPS)}

InitColor ==
    /\ kValue \in {NULL, <<NaN>>} \cup {<<v>> : v \in ColorValues}
    /\ kFill = NULL
    /\ kHex \in TextInputs
    /\ kText = NULL
    /\ kPc = "start"
    /\ CoreIdle
    /\ PageIdle
    /\ AdvisoryIdle
    /\ LoaderIdle
    /\ MapIdle

FillStep ==
    /\ kPc = "start"
    /\ kFill' = heatIndexColor(kValue)
    /\ kPc' = "filled"
    /\ UNCHANGED <<kValue, kHex, kText, exceptColorVars>>

TextStep ==
    /\ kPc = "filled"
    /\ kText' = pickTextColor(kHex)
    /\ kPc' = "done"
    /\ UNCHANGED <<kValue, kFill, kHex, exceptColorVars>>

NextColor == FillStep \/ TextStep

SpecColor == InitColor /\ [][NextColor]_vars

(***************************************************************************)
(* Properties of the color scale (SpecColor)                               *)
(***************************************************************************)
\* channel c (1 red, 2 green, 3 blue) of a six-digit color
ChannelOf(hex, c) == 16 * hex[2 * c - 1] + hex[2 * c]

Between(x, a, b) == (a <= x /\ x <= b) \/ (b <= x /\ x <= a)

\* the stop interval a value strictly inside the scale belongs to
BracketOf(v) ==
    CHOOSE i \in 1..(Len(HEAT_INDEX_COLOR_STOPS) - 1) :
        HEAT_INDEX_COLOR_STOPS[i].value <= v /\ v < HEAT_INDEX_COLOR_STOPS[i + 1].value

\* C17: heatIndexColor is the reference mapping over the stops: the first
\* color up to 20, the last from 55 on, and in between every channel is the
\* linear interpolation between the two neighbouring stops rounded to the
\* nearest integer, equal to the stop's color at a stop, between the two
\* stops' channel values, and moving monotonically with the value.
C17_ReferenceMapping ==
    (kPc # "start" /\ kValue # NULL /\ kValue # <<NaN>>) =>
        LET v == kValue[1]
            stops == HEAT_INDEX_COLOR_STOPS
        IN  /\ Len(kFill) = 6
            /\ v <= 200 => kFill = stops[1].color
            /\ v >= 550 => kFill = stops[Len(stops)].color
            /\ (200 < v /\ v < 550) =>
                   LET i == BracketOf(v)
                       span == stops[i + 1].value - stops[i].value
                       num == v - stops[i].value
                   IN  \A c \in 1..3 :
                           LET a == ChannelOf(stops[i].color, c)
                               b == ChannelOf(stops[i + 1].color, c)
                               x == ChannelOf(kFill, c)
                               exact == a * span + (b - a) * num
                               before == ChannelOf(heatIndexColor(<<v - 1>>), c)
                           IN  /\ 2 * (x * span - exact) <= span
                               /\ 2 * (exact - x * span) <= span
                               /\ Between(x, a, b)
                               /\ num = 0 => x = a
                               /\ num >= 1 => Between(before, a, x)

\* a value strictly between two stops whose interpolated red channel is a
\* half rounded up: 20.3 between 14 and 34 gives 15
C17_Witness ==
    /\ kPc = "filled"
    /\ kValue = <<203>>
    /\ ChannelOf(kFill, 1) = 15
    /\ kFill # HEAT_INDEX_COLOR_STOPS[1].color

\* C18: pickTextColor returns the dark color exactly when the relative
\* luminance (0.299 r + 0.587 g + 0.114 b) / 255 of the color strictly exceeds
\* 0.6, and the light one otherwise; white gives dark, black gives light.
C18_TextContrast ==
    (kPc = "done" /\ Len(kHex) = 6) =>
        LET weighted == 299 * ChannelOf(kHex, 1) + 587 * ChannelOf(kHex, 2)
                        + 114 * ChannelOf(kHex, 3)
        IN  /\ kText = IF weighted * 10 > 6 * 255 * 1000 THEN "#0f172a" ELSE "#ffffff"
            /\ kHex = GrayHex(255) => kText = "#0f172a"
            /\ kHex = GrayHex(0) => kText = "#ffffff"

\* the gray whose luminance is exactly 0.6 gets the light color
C18_Witness ==
    /\ kPc = "done"
    /\ kHex = GrayHex(153)
    /\ kText = "#ffffff"

(***************************************************************************)
(* CityMap render effect (the component in weather-history/route.ts,       *)
(* lines 152-251).  A run of the effect is a record                        *)
(*   focus      city.name of the render the effect belongs to              *)
(*   readings   the names of cityReadings, in order                        *)
(*   idx        position of the loop of renderLayers                       *)
(*   wait       what the loop awaits: the promise of ensureBoundary        *)
(*   cancelled  the flag set by the cleanup (the signal is aborted too)    *)
(*   got, renders, fits   how many geometries the run obtained, how many   *)
(*              layers it added and how often it called fitBounds          *)
(***************************************************************************)
Names == {"Imus", "Bacoor"}

\* the geocoding source may answer two requests for one name differently
Revisions == {1, 2}

\* a geometry the geocoding source has for a locality
BoundaryOf(name, rev) == [type |-> "Polygon", of |-> name, rev |-> rev]

\* ensureBoundary up to its first await, looking at no cache
ensureBoundaryUncached(cache, cityName, aborted) ==
    IF aborted THEN [kind |-> "aborted"] ELSE [kind |-> "fetch"]

\* ensureBoundary up to its first await: a cached geometry is returned, a
\* fetch on an aborted signal rejects without a request, otherwise the
\* request is sent
ensureBoundary(cache, cityName, aborted) ==
    IF cache[cityName] # NULL THEN [kind |-> "cached", geometry |-> cache[cityName]]
    ELSE IF aborted THEN [kind |-> "aborted"]
    ELSE [kind |-> "fetch"]

\* the loop moves to position idx: it is over, or it calls ensureBoundary
AwaitAt(run, idx, cache) ==
    IF idx > Len(run.readings) THEN [kind |-> "done"]
    ELSE ensureBoundary(cache, run.readings[idx], run.cancelled)

\* the requests a new await sends
Issued(counts, run, idx, wait) ==
    IF wait.kind = "fetch"
    THEN [counts EXCEPT ![run.readings[idx]] = @ + 1]
    ELSE counts

\* the test of line 209 without the flag
ShouldSkipUncancelled(geometry, cancelled) == geometry = NULL

\* if (!geometry || cancelled) continue
ShouldSkip(geometry, cancelled) == geometry = NULL \/ cancelled

\* no layer is stale
StaleLayersNone(readings) == {}

\* removeStaleLayers: the cached layers of the names that are not requested
StaleLayers(readings) ==
    {layerCache[n] : n \in {m \in Names : layerCache[m] # NULL
                                           /\ \A i \in 1..Len(readings) : readings[i] # m}}

\* every layer gets the stronger style
LayerOfAlwaysFocused(r, name, focus) ==
    [name |-> name, run |-> r, weight |-> 25, fillOpacity |-> 65]

\* the layer L.geoJSON builds at lines 217-224; weight in tenths, opacity
\* in hundredths
LayerOf(r, name, focus) ==
    [name |-> name, run |-> r,
     weight |-> IF name = focus THEN 25 ELSE 10,
     fillOpacity |-> IF name = focus THEN 65 ELSE 35]

\* the new layer is added beside the one it replaces
ReplaceLayerKeepingOld(layers, old, layer) == layers \cup {layer}

\* layerCacheRef.current[entry.name]?.remove() and layer.addTo(map)
ReplaceLayer(layers, old, layer) == (layers \ old) \cup {layer}

(***************************************************************************)
(* Specification SpecMap: redraws of the map and completions of the        *)
(* boundary requests, in any order.                                        *)
(***************************************************************************)
\* number of runs of the effect
MaxRedraws == 2

ReadingLists ==
    {<<>>, <<"Imus">>, <<"Bacoor">>, <<"Imus", "Bacoor">>, <<"Bacoor", "Imus">>}

InitMap ==
    /\ boundaryCache = [n \in Names |-> NULL]
    /\ layerCache = [n \in Names |-> NULL]
    /\ mapLayers = {}
    /\ view = NULL
    /\ runs = <<>>
    /\ fetchCount = [n \in Names |-> 0]
    /\ CoreIdle
    /\ PageIdle
    /\ AdvisoryIdle
    /\ LoaderIdle
    /\ ColorIdle

\* a render with new props: the cleanup of the previous run (lines 247-250),
\* then the effect body up to the first await of renderLayers
Redraw ==
    /\ Len(runs) < MaxRedraws
    /\ \E focus \in Names, readings \in ReadingLists :
          LET stale == StaleLayers(readings)
              fresh == [focus |-> focus, readings |-> readings, idx |-> 1,
                        wait |-> [kind |-> "done"], cancelled |-> FALSE,
                        got |-> 0, renders |-> 0, fits |-> 0]
              wait == AwaitAt(fresh, 1, boundaryCache)
              superseded == [r \in DOMAIN runs |->
                                IF r = Len(runs) THEN [runs[r] EXCEPT !.cancelled = TRUE]
                                ELSE runs[r]]
          IN  /\ mapLayers' = mapLayers \ stale
              /\ layerCache' = [n \in Names |->
                                   IF layerCache[n] \in stale THEN NULL ELSE layerCache[n]]
              /\ runs' = Append(superseded, [fresh EXCEPT !.wait = wait])
              /\ fetchCount' = Issued(fetchCount, fresh, 1, wait)
    /\ UNCHANGED <<boundaryCache, view, exceptMapVars>>

\* the loop body after the await of run r delivered geometry (lines 209-241;
\* the bounds of a boundary polygon are valid),
\* then the next await; cache is the boundary cache after ensureBoundary
Continue(r, geometry, cache) ==
    LET run == runs[r]
        name == run.readings[run.idx]
        skip == ShouldSkip(geometry, run.cancelled)
        layer == LayerOf(r, name, run.focus)
        old == IF layerCache[name] = NULL THEN {} ELSE {layerCache[name]}
        fit == ~skip /\ name = run.focus
        wait == AwaitAt(run, run.idx + 1, cache)
    IN  /\ boundaryCache' = cache
        /\ mapLayers' = IF skip THEN mapLayers ELSE ReplaceLayer(mapLayers, old, layer)
        /\ layerCache' = IF skip THEN layerCache ELSE [layerCache EXCEPT ![name] = layer]
        /\ view' = IF fit THEN [fit |-> name, run |-> r] ELSE view
        /\ runs' = [runs EXCEPT ![r] =
                       [run EXCEPT !.idx = run.idx + 1,
                                   !.wait = wait,
                                   !.got = IF geometry = NULL THEN @ ELSE @ + 1,
                                   !.renders = IF skip THEN @ ELSE @ + 1,
                                   !.fits = IF fit THEN @ + 1 ELSE @]]
        /\ fetchCount' = IF run.idx + 1 > Len(run.readings) THEN fetchCount
                         ELSE Issued(fetchCount, run, run.idx + 1, wait)
        /\ UNCHANGED exceptMapVars

\* the await of a call that returned the cached geometry, or whose fetch
\* was rejected at once on the aborted signal, resumes
Resume ==
    \E r \in DOMAIN runs :
        /\ runs[r].wait.kind \in {"cached", "aborted"}
        /\ Continue(r, IF runs[r].wait.kind = "cached" THEN runs[r].wait.geometry ELSE NULL,
                    boundaryCache)

\* the request of run r is answered with a feature collection: its first
\* geometry, if there is one, is cached and returned (lines 181-186).  The
\* cleanup aborts the signal the request was sent with (line 176), so the
\* request of a cancelled run is rejected and delivers nothing.
FetchSucceeds ==
    \E r \in DOMAIN runs :
        /\ runs[r].wait.kind = "fetch"
        /\ ~runs[r].cancelled
        /\ \E geometry \in {NULL} \cup {BoundaryOf(runs[r].readings[runs[r].idx], v) :
                                             v \in Revisions} :
              Continue(r, geometry,
                       IF geometry = NULL THEN boundaryCache
                       ELSE [boundaryCache EXCEPT ![runs[r].readings[runs[r].idx]] = geometry])

\* the request of run r fails: network error, a status that is not ok, or
\* the abort of the cleanup (lines 174-180, 187-192)
FetchFails ==
    \E r \in DOMAIN runs :
        /\ runs[r].wait.kind = "fetch"
        /\ Continue(r, NULL, boundaryCache)

NextMap == Redraw \/ Resume \/ FetchSucceeds \/ FetchFails

SpecMap == InitMap /\ [][NextMap]_vars

\* every await is resumed and every request is answered or fails
SpecMapFair ==
    SpecMap /\ WF_vars(Resume) /\ WF_vars(FetchSucceeds \/ FetchFails)

(***************************************************************************)
(* Properties of the render effect (SpecMap)                               *)
(***************************************************************************)
\* C19 as stated: across any sequence of redraws at most one boundary fetch
\* is issued for a locality name.
C19_AtMostOneFetch ==
    \A n \in Names : fetchCount[n] <= 1

\* the runs whose loop has just moved on to a new call of ensureBoundary
JustCalled ==
    {r \in DOMAIN runs' :
        /\ runs'[r].wait.kind # "done"
        /\ r \in DOMAIN runs => runs'[r].idx # runs[r].idx}

\* C19, amended: once the geometry of a locality is cached no fetch is issued
\* for that name any more, and a call of ensureBoundary for a cached name
\* returns the cached geometry without a fetch.
C19_CachedNeverFetched ==
    [][/\ \A n \in Names : boundaryCache[n] # NULL => fetchCount'[n] = fetchCount[n]
       /\ \A r \in JustCalled :
              LET n == runs'[r].readings[runs'[r].idx]
              IN  boundaryCache'[n] # NULL =>
                      /\ runs'[r].wait = [kind |-> "cached", geometry |-> boundaryCache'[n]]
                      /\ fetchCount'[n] = fetchCount[n]]_vars

\* the first run fetched the geometry of its only locality and the second
\* run rendered that locality without another fetch
C19_Witness ==
    \E n \in Names :
        /\ Len(runs) >= 2
        /\ runs[1].readings = <<n>>
        /\ runs[1].got = 1
        /\ fetchCount[n] = 1
        /\ boundaryCache[n] # NULL
        /\ layerCache[n] # NULL
        /\ layerCache[n].run = 2

\* C20: a run whose cleanup has run never renders afterwards: it adds no
\* layer to the map, writes no entry of the layer cache and does not re-fit
\* the view, whatever its boundary fetch delivers.
C20_SupersededNeverRenders ==
    [][\A r \in DOMAIN runs :
           runs[r].cancelled =>
               /\ runs'[r].renders = runs[r].renders
               /\ runs'[r].fits = runs[r].fits
               /\ {l \in mapLayers' : l.run = r} \subseteq mapLayers
               /\ \A n \in Names :
                      (layerCache'[n] # layerCache[n] /\ layerCache'[n] # NULL)
                          => layerCache'[n].run # r
               /\ (view' # view) => view'.run # r]_vars

\* a superseded run is over, its call of ensureBoundary returned a geometry
\* after its cleanup and it rendered nothing
C20_Witness ==
    \E r \in DOMAIN runs :
        /\ runs[r].cancelled
        /\ runs[r].wait.kind = "done"
        /\ runs[r].got >= 1
        /\ runs[r].renders = 0
        /\ \A l \in mapLayers : l.run # r

\* the names a run requests
Requested(run) == {run.readings[i] : i \in 1..Len(run.readings)}

\* C21: the start of a redraw removes every rendered layer whose locality is
\* not requested from the map and from the layer cache, and no step of the
\* renderer evicts or replaces a cached geometry.
C21_StaleRemovedCacheKept ==
    [][/\ \A n \in Names : boundaryCache[n] # NULL => boundaryCache'[n] = boundaryCache[n]
       /\ Len(runs') > Len(runs) =>
              LET requested == Requested(runs'[Len(runs')])
              IN  /\ \A l \in mapLayers :
                         l.name \notin requested => l \notin mapLayers'
                  /\ \A l \in mapLayers' : l.name \in requested
                  /\ \A n \in Names \ requested : layerCache'[n] = NULL]_vars

\* the first run rendered its only locality, the second run does not request
\* it: the layer is gone and the geometry is still cached
C21_Witness ==
    \E n \in Names :
        /\ Len(runs) = 2
        /\ runs[1].readings = <<n>>
        /\ runs[1].renders = 1
        /\ n \notin Requested(runs[2])
        /\ layerCache[n] = NULL
        /\ \A l \in mapLayers : l.name # n
        /\ boundaryCache[n] # NULL

\* C25: the map holds at most one rendered layer per locality and that layer
\* is the one recorded in the layer cache.
C25_OneLayerPerLocality ==
    /\ \A n \in Names : Cardinality({l \in mapLayers : l.name = n}) <= 1
    /\ \A l \in mapLayers : layerCache[l.name] = l
    /\ \A n \in Names : layerCache[n] # NULL => layerCache[n] \in mapLayers

\* a locality rendered by the first run was rendered again by the second
C25_Witness ==
    \E n \in Names :
        /\ Len(runs) = 2
        /\ runs[1].readings = <<n>>
        /\ runs[1].renders = 1
        /\ layerCache[n] # NULL
        /\ layerCache[n].run = 2
        /\ {l \in mapLayers : l.name = n} = {layerCache[n]}

Focused(l) == l.weight = 25 /\ l.fillOpacity = 65

\* C27: at every moment at most one rendered layer carries the focused
\* styling.
C27_OneFocusedLayer ==
    Cardinality({l \in mapLayers : Focused(l)}) <= 1

\* the map after the last run: one layer for each requested locality whose
\* geometry is available, none for the others, the stronger style on the
\* focused locality only
Settled(run) ==
    /\ run.wait.kind = "done"
    /\ \A n \in Requested(run) :
           boundaryCache[n] # NULL => Cardinality({l \in mapLayers : l.name = n}) = 1
    /\ \A l \in mapLayers : l.name \in Requested(run)
    /\ \A l \in mapLayers : Focused(l) <=> l.name = run.focus
    /\ \A l \in mapLayers : Focused(l) \/ (l.weight = 10 /\ l.fillOpacity = 35)

\* C26: when the redraws have stopped and every request is answered, the last
\* run finishes and from then on the map is settled.
C26_EventuallySettled ==
    <>[](runs # <<>> => Settled(runs[Len(runs)]))

\* the second run is over and left the focused layer and another one
C26_Witness ==
    /\ Len(runs) = 2
    /\ Settled(runs[2])
    /\ runs[1].renders >= 1
    /\ runs[1].focus # runs[2].focus
    /\ Cardinality(mapLayers) = 2
    /\ \E l \in mapLayers : Focused(l)

(***************************************************************************)
(* The two classifiers (SpecClassify)                                      *)
(***************************************************************************)
\* C29: for every value that is a number or null, the level of the
\* descriptor classifyHeatIndex returns is the level classifyRiskLevel
\* returns.
C29_SameLevel ==
    (cResult # NULL /\ cDescriptor # NULL) => cDescriptor.level = cResult.level

\* both classifiers have been applied to the cutoff 41
C29_Witness ==
    /\ cResult # NULL
    /\ cDescriptor # NULL
    /\ cValue = <<41000>>
    /\ cDescriptor.level = "high"

(***************************************************************************)
(* Specification SpecPage: the insights page. The selected city comes      *)
(* from the URL or from the option list; every change of it restarts the   *)
(* loadMetrics effect, and the demographics are loaded once.               *)
(***************************************************************************)
\* how many runs of the loadMetrics effect are followed
MaxSelections == 3

\* some names of cityOptions
PageOptions == {"Imus", "Dasmarinas", "Tanza"}

\* values of the ?city= parameter of the page URL
UrlCities == {"Imus", "IMUS", "Tanza"}

PageCities == PageOptions \cup UrlCities

\* cavite_demographics.csv as both endpoints read it
PageDemographicLines == DemographicLines("100000")

\* levels the server may have derived from the hourly document
PageLevels == {"unknown", "high"}

\* the fields of the snapshot the page reads in the Vulnerable Population
\* card, as buildInsightSnapshot computes them for the ?city= parameter
PageSnapshot(cityParam, level) ==
    LET demo == findDemographicRecord(PageDemographicLines, Trim(cityParam))
    IN  [city |-> Trim(cityParam),
         riskLevel |-> level,
         demographic |-> demo,
         vulnerablePopulation |-> VulnerablePopulation(demo, level)]

\* demographics.find((record) => record.city === selectedCity) ?? null
selectedDemographic(records, name) ==
    LET hits == {i \in 1..Len(records) : records[i].city = name}
    IN  IF hits = {} THEN NULL
        ELSE records[CHOOSE i \in hits : \A j \in hits : i <= j]

\* the line under the figure of the Vulnerable Population card
VulnerableNote(record) ==
    IF record # NULL /\ record.population2020 # NULL /\ record.population2020[1] # 0
    THEN "% of residents"
    ELSE "Need census data"

\* a run of the effect applying whatever arrives
MayUpdateAlways(run) == TRUE

\* if (!cancelled)
MayUpdate(run) == ~run.cancelled

\* the cleanup of a run: cancelled = true; controller.abort()
CleanupRun(run) == [run EXCEPT !.cancelled = TRUE]

\* a run of the loadMetrics effect for the selected city
MetricsRun(name) == [city |-> name, cancelled |-> FALSE, outcome |-> "pending"]

CleanupLast(all) ==
    [r \in DOMAIN all |-> IF r = Len(all) THEN CleanupRun(all[r]) ELSE all[r]]

\* the page after its first commit: both effects have run
InitPage ==
    /\ selectedCity \in PageCities
    /\ metrics = NULL
    /\ metricsStatus = "loading"
    /\ demographics = <<>>
    /\ demoStatus = "loading"
    /\ metricsRuns = <<MetricsRun(selectedCity)>>
    /\ CoreIdle
    /\ LoaderIdle
    /\ ColorIdle
    /\ MapIdle
    /\ AdvisoryIdle

\* the selection changes (the select element, or a navigation changing
\* the ?city= parameter): the cleanup of the live run, then a new run
SelectCity ==
    \E name \in PageCities :
        /\ name # selectedCity
        /\ Len(metricsRuns) < MaxSelections
        /\ selectedCity' = name
        /\ metricsRuns' = Append(CleanupLast(metricsRuns), MetricsRun(name))
        /\ metricsStatus' = "loading"
        /\ UNCHANGED <<exceptPageVars, metrics, demographics, demoStatus>>

\* a run receives the snapshot of its request; a run whose cleanup has
\* run may still receive it, when the response was complete before the
\* abort
MetricsArrive ==
    \E r \in DOMAIN metricsRuns, level \in PageLevels :
        /\ metricsRuns[r].outcome = "pending"
        /\ metricsRuns' = [metricsRuns EXCEPT ![r].outcome = "ok"]
        /\ IF MayUpdate(metricsRuns[r])
           THEN /\ metrics' = PageSnapshot(metricsRuns[r].city, level)
                /\ metricsStatus' = "idle"
           ELSE UNCHANGED <<metrics, metricsStatus>>
        /\ UNCHANGED <<exceptPageVars, selectedCity, demographics, demoStatus>>

\* the request of a run fails: a status that is not ok, or a network error
MetricsFail ==
    \E r \in DOMAIN metricsRuns :
        /\ metricsRuns[r].outcome = "pending"
        /\ metricsRuns' = [metricsRuns EXCEPT ![r].outcome = "failed"]
        /\ metricsStatus' = IF MayUpdate(metricsRuns[r]) THEN "error" ELSE metricsStatus
        /\ UNCHANGED <<exceptPageVars, selectedCity, metrics, demographics, demoStatus>>

\* the request of a cancelled run is rejected with an AbortError
MetricsAborted ==
    \E r \in DOMAIN metricsRuns :
        /\ metricsRuns[r].outcome = "pending"
        /\ metricsRuns[r].cancelled
        /\ metricsRuns' = [metricsRuns EXCEPT ![r].outcome = "aborted"]
        /\ UNCHANGED <<exceptPageVars, selectedCity, metrics, metricsStatus, demographics, demoStatus>>

\* /api/demographics answers with every record of the file
DemographicsArrive ==
    /\ demoStatus = "loading"
    /\ demographics' = loadDemographics(PageDemographicLines)
    /\ demoStatus' = "idle"
    /\ UNCHANGED <<exceptPageVars, selectedCity, metrics, metricsStatus, metricsRuns>>

DemographicsFail ==
    /\ demoStatus = "loading"
    /\ demoStatus' = "error"
    /\ UNCHANGED <<exceptPageVars, selectedCity, metrics, metricsStatus, demographics, metricsRuns>>

NextPage ==
    \/ SelectCity
    \/ MetricsArrive
    \/ MetricsFail
    \/ MetricsAborted
    \/ DemographicsArrive
    \/ DemographicsFail

SpecPage == InitPage /\ [][NextPage]_vars

(***************************************************************************)
(* Properties of the insights page (SpecPage)                              *)
(***************************************************************************)
\* the live run ends in this step
LiveRunSettles ==
    /\ Len(metricsRuns') = Len(metricsRuns)
    /\ metricsRuns[Len(metricsRuns)].outcome = "pending"
    /\ metricsRuns'[Len(metricsRuns)].outcome # "pending"
    /\ metricsRuns[Len(metricsRuns)].city = selectedCity

\* C22: once the selection has changed, the response of the request of
\* the former selection changes neither the metrics nor the metrics
\* status, whenever it arrives; the two change only when a new selection
\* starts its run or when the run of the latest selection ends, and a
\* snapshot stored is the one asked for the selected city.
C22_StaleResponseDiscarded ==
    [][ /\ \A r \in DOMAIN metricsRuns :
              (metricsRuns[r].cancelled /\ metricsRuns'[r] # metricsRuns[r])
                  => (metrics' = metrics /\ metricsStatus' = metricsStatus)
        /\ (metrics' # metrics \/ metricsStatus' # metricsStatus)
              => (Len(metricsRuns') > Len(metricsRuns) \/ LiveRunSettles)
        /\ metrics' # metrics => metrics'.city = Trim(selectedCity)
      ]_vars

\* the response of the first selection arrived after the selection had
\* changed and before the response of the second, and nothing was stored
C22_Witness ==
    /\ Len(metricsRuns) = 2
    /\ metricsRuns[1].cancelled
    /\ metricsRuns[1].outcome = "ok"
    /\ metricsRuns[2].outcome = "pending"
    /\ metrics = NULL
    /\ metricsStatus = "loading"

\* C30: when the demographics and the snapshot of the selected city are
\* both loaded, the record the page shows is the record of the snapshot,
\* and the card does not ask for census data while the snapshot carries
\* a vulnerable-population estimate.
C30_SameDemographicRecord ==
    (/\ demoStatus = "idle"
     /\ metricsStatus = "idle"
     /\ metrics # NULL
     /\ metricsRuns[Len(metricsRuns)].outcome = "ok")
        => /\ selectedDemographic(demographics, selectedCity) = metrics.demographic
           /\ ~(/\ VulnerableNote(selectedDemographic(demographics, selectedCity)) = "Need census data"
                /\ metrics.vulnerablePopulation # NULL)

(***************************************************************************)
(* The advisory endpoint: GET /api/safety-recommendations with its cache   *)
(* file and the text generator.                                            *)
(***************************************************************************)
\* one hour, in milliseconds
REFRESH_WINDOW_MS == 3600000

\* new Date(ms).toISOString(), and the texts Date.parse cannot read
ToISOString(ms) == [iso |-> ms]

\* Date.parse of an updated_at text
ParseUpdatedAt(text) == IF "iso" \in DOMAIN text THEN text.iso ELSE NaN

defaultPayload == [generated_at |-> ToISOString(0), entries |-> <<>>]

createFallbackRecommendations(name) ==
    <<[title |-> "Expand shaded rest points",
       summary |-> <<"Set up extra misting tents or shaded lay-bys in", name>>,
       urgency |-> "medium", focus |-> "cooling"],
      [title |-> "Intensify hydration alerts",
       summary |-> <<"Push barangay-level reminders urging residents of", name>>,
       urgency |-> "high", focus |-> "risk-comms"],
      [title |-> "Deploy barangay patrol thermometers",
       summary |-> <<"Equip community volunteers with handheld meters in", name>>,
       urgency |-> "low", focus |-> "monitoring"]>>

\* one element of the parsed array, after the map of sanitizeResponse
SanitizeItem(item) ==
    [title |-> Trim(IF item.title = NULL THEN "" ELSE item.title[1]),
     summary |-> Trim(IF item.summary = NULL THEN "" ELSE item.summary[1]),
     urgency |-> ToLowerCase(IF item.urgency = NULL THEN "medium" ELSE item.urgency[1]),
     focus |-> Trim(IF item.focus = NULL THEN "general" ELSE item.focus[1])]

RECURSIVE SanitizeItems(_)
SanitizeItems(items) ==
    IF items = <<>> THEN <<>>
    ELSE LET item == SanitizeItem(Head(items))
             rest == SanitizeItems(Tail(items))
         IN  IF item.title # "" /\ item.summary # "" THEN <<item>> \o rest ELSE rest

\* a text of the generator: empty, not JSON, a JSON object or a JSON array
\* of items (an item is null or an object); fence tells what surrounds it:
\* "none", "fenced" (```json before, ``` as the very end) or "trailing"
\* (the same with a line break after the closing fence)

\* .replace(/^```json\s*/i, "").replace(/```$/i, "").trim()
StripFence(text) ==
    [text EXCEPT !.fence = IF @ = "fenced" THEN "none"
                           ELSE IF @ = "trailing" THEN "closing"
                           ELSE @]

\* whether JSON.parse accepts the text
IsJson(text) == text.kind \in {"object", "array"} /\ text.fence = "none"

\* the result is NULL or <<list>>, the list of the valid items
sanitizeResponse(text) ==
    IF text.kind = "empty" THEN NULL
    ELSE LET clean == StripFence(text)
         IN  IF ~IsJson(clean) THEN NULL
             ELSE IF clean.kind # "array" THEN NULL
             ELSE IF \E i \in 1..Len(clean.items) : clean.items[i] = NULL THEN NULL
             ELSE <<SanitizeItems(clean.items)>>

\* requestRecommendations returning whatever list was parsed
requestRecommendationsAnyList(name, outcome) ==
    IF outcome.kind = "nokey" THEN createFallbackRecommendations(name)
    ELSE IF outcome.kind = "throws" THEN createFallbackRecommendations(name)
    ELSE LET parsed == sanitizeResponse(outcome.text)
         IN  IF parsed # NULL THEN parsed[1]
             ELSE createFallbackRecommendations(name)

\* outcome: no API key, generateContent throws, or it returns a text
requestRecommendations(name, outcome) ==
    IF outcome.kind = "nokey" THEN createFallbackRecommendations(name)
    ELSE IF outcome.kind = "throws" THEN createFallbackRecommendations(name)
    ELSE LET parsed == sanitizeResponse(outcome.text)
         IN  IF parsed # NULL /\ Len(parsed[1]) > 0 THEN parsed[1]
             ELSE createFallbackRecommendations(name)

\* cache.entries.find((entry) => entry.city.toLowerCase() === city.toLowerCase())
FindEntry(entries, name) ==
    LET hits == {i \in 1..Len(entries) : ToLowerCase(entries[i].city) = ToLowerCase(name)}
    IN  IF hits = {} THEN NULL
        ELSE entries[CHOOSE i \in hits : \A j \in hits : i <= j]

\* cache.entries.filter((entry) => entry.city.toLowerCase() !== city.toLowerCase())
RECURSIVE OtherEntries(_, _)
OtherEntries(entries, name) ==
    IF entries = <<>> THEN <<>>
    ELSE IF ToLowerCase(Head(entries).city) # ToLowerCase(name)
         THEN <<Head(entries)>> \o OtherEntries(Tail(entries), name)
         ELSE OtherEntries(Tail(entries), name)

\* now - Date.parse(updated_at)
AgeOf(now, text) ==
    IF ParseUpdatedAt(text) = NaN THEN NaN ELSE now - ParseUpdatedAt(text)

\* the test with the entry of exactly one hour still served from the cache
IsFreshInclusive(entry, now) ==
    /\ entry # NULL
    /\ NumberIsFinite(AgeOf(now, entry.updated_at))
    /\ AgeOf(now, entry.updated_at) <= REFRESH_WINDOW_MS

\* cachedEntry && Number.isFinite(age) && age < REFRESH_WINDOW_MS
IsFresh(entry, now) ==
    /\ entry # NULL
    /\ NumberIsFinite(AgeOf(now, entry.updated_at))
    /\ AgeOf(now, entry.updated_at) < REFRESH_WINDOW_MS

\* the payload handed to writeCache after a regeneration
NextPayload(cache, name, stamp, recommendations) ==
    [generated_at |-> stamp,
     entries |-> Append(OtherEntries(cache.entries, name),
                        [city |-> name, updated_at |-> stamp,
                         recommendations |-> recommendations])]

\* what readCache returns for the file as it is found
CacheOf(file) == IF file.kind = "json" THEN file.payload ELSE defaultPayload

\* what writeFile leaves on disk
FileOf(payload) == [kind |-> "json", payload |-> payload]

(***************************************************************************)
(* Specification SpecAdvisory: two requests of the advisory endpoint,      *)
(* handled concurrently, each resuming after each of its awaits.           *)
(***************************************************************************)
AdvisoryIds == {1, 2}

\* values of the ?city= parameter
CityParams == {"Imus", "IMUS", "Bacoor", "  "}

\* Date.now() when the first request arrives
AdvisoryStart == 2 * REFRESH_WINDOW_MS

AdvisoryEnd == AdvisoryStart + REFRESH_WINDOW_MS

ValidItem ==
    [title |-> <<" Open cooling centers">>, summary |-> <<"Extend the hours of barangay halls">>,
     urgency |-> <<"HIGH">>, focus |-> NULL]

BlankTitleItem ==
    [title |-> <<"  ">>, summary |-> <<"Extend the hours of barangay halls">>,
     urgency |-> NULL, focus |-> <<"cooling">>]

NoSummaryItem ==
    [title |-> <<"Check on neighbors">>, summary |-> NULL, urgency |-> NULL, focus |-> NULL]

GeneratorTexts ==
    {[kind |-> "empty", fence |-> "none"],
     [kind |-> "garbage", fence |-> "none"],
     [kind |-> "object", fence |-> "fenced"],
     [kind |-> "array", fence |-> "none", items |-> <<>>],
     [kind |-> "array", fence |-> "none", items |-> <<NULL>>],
     [kind |-> "array", fence |-> "none", items |-> <<BlankTitleItem, NoSummaryItem>>],
     [kind |-> "array", fence |-> "trailing", items |-> <<ValidItem>>],
     [kind |-> "array", fence |-> "fenced", items |-> <<NoSummaryItem, ValidItem>>]}

GeneratorOutcomes ==
    {[kind |-> "nokey"], [kind |-> "throws"]}
    \cup {[kind |-> "text", text |-> t] : t \in GeneratorTexts}

\* entries earlier requests have written: the recommendations are lists
\* requestRecommendations returns; the last one has an updated_at that
\* Date.parse cannot read
StoredImus ==
    {<<>>,
     <<[city |-> "Imus", updated_at |-> ToISOString(AdvisoryStart - REFRESH_WINDOW_MS + 1),
        recommendations |-> createFallbackRecommendations("Imus")]>>,
     <<[city |-> "Imus", updated_at |-> ToISOString(AdvisoryStart - REFRESH_WINDOW_MS),
        recommendations |-> <<SanitizeItem(ValidItem)>>]>>,
     <<[city |-> "imus", updated_at |-> [text |-> "an hour ago"],
        recommendations |-> <<SanitizeItem(ValidItem)>>]>>}

StoredTanza ==
    {<<>>,
     <<[city |-> "Tanza", updated_at |-> ToISOString(AdvisoryStart - 1),
        recommendations |-> createFallbackRecommendations("Tanza")]>>}

StoredFiles ==
    {[kind |-> "missing"], [kind |-> "unreadable"]}
    \cup {FileOf([generated_at |-> ToISOString(AdvisoryStart - 1), entries |-> t \o i]) :
            t \in StoredTanza, i \in StoredImus}

IdleRequest ==
    [pc |-> "idle", city |-> "", cache |-> NULL, recommendations |-> NULL,
     updated_at |-> NULL, outcome |-> NULL, generated |-> 0, persisted |-> FALSE,
     response |-> NULL]

InitAdvisory ==
    /\ cacheFile \in StoredFiles
    /\ advClock = AdvisoryStart
    /\ advRequests = [id \in AdvisoryIds |-> IdleRequest]
    /\ CoreIdle
    /\ LoaderIdle
    /\ ColorIdle
    /\ MapIdle
    /\ PageIdle

\* lines 164-173: the request after readCache has returned
AfterRead(req, cache, now) ==
    LET cachedEntry == FindEntry(cache.entries, req.city)
    IN  IF IsFresh(cachedEntry, now)
        THEN [req EXCEPT !.pc = "done", !.cache = cache,
                         !.response = [status |-> 200, city |-> req.city,
                                       updated_at |-> cachedEntry.updated_at,
                                       recommendations |-> cachedEntry.recommendations]]
        ELSE [req EXCEPT !.pc = "generate", !.cache = cache, !.generated = @ + 1]

\* a request arrives: the parameter is trimmed and an empty city refused
Arrive(id) ==
    \E param \in CityParams :
        /\ advRequests[id].pc = "idle"
        /\ advRequests' = [advRequests EXCEPT ![id] =
              IF Trim(param) = ""
              THEN [@ EXCEPT !.pc = "done", !.response = [status |-> 400]]
              ELSE [@ EXCEPT !.pc = "read", !.city = Trim(param)]]
        /\ UNCHANGED <<exceptAdvisoryVars, cacheFile, advClock>>

\* readFile settles: the file is parsed, or it is missing and has to be
\* created first, or it cannot be read and the default payload stands in
ReadCache(id) ==
    /\ advRequests[id].pc = "read"
    /\ advRequests' = [advRequests EXCEPT ![id] =
          IF cacheFile.kind = "missing"
          THEN [@ EXCEPT !.pc = "create"]
          ELSE AfterRead(@, CacheOf(cacheFile), advClock)]
    /\ UNCHANGED <<exceptAdvisoryVars, cacheFile, advClock>>

\* writeCache(defaultPayload) of readCache settles, written or not
CreateCache(id) ==
    \E written \in BOOLEAN :
        /\ advRequests[id].pc = "create"
        /\ cacheFile' = IF written THEN FileOf(defaultPayload) ELSE cacheFile
        /\ advRequests' = [advRequests EXCEPT ![id] = AfterRead(@, defaultPayload, advClock)]
        /\ UNCHANGED <<exceptAdvisoryVars, advClock>>

\* requestRecommendations settles; lines 174-181 follow at once
Generate(id) ==
    \E outcome \in GeneratorOutcomes :
        /\ advRequests[id].pc = "generate"
        /\ advRequests' = [advRequests EXCEPT ![id] =
              [@ EXCEPT !.pc = "write",
                        !.outcome = outcome,
                        !.recommendations =
                            requestRecommendations(advRequests[id].city, outcome),
                        !.updated_at = ToISOString(advClock)]]
        /\ UNCHANGED <<exceptAdvisoryVars, cacheFile, advClock>>

\* writeCache(nextPayload) settles, written or not, and the response is sent
WriteCache(id) ==
    \E written \in BOOLEAN :
        LET req == advRequests[id]
        IN  /\ req.pc = "write"
            /\ cacheFile' = IF written
                            THEN FileOf(NextPayload(req.cache, req.city, req.updated_at,
                                                    req.recommendations))
                            ELSE cacheFile
            /\ advRequests' = [advRequests EXCEPT ![id] =
                  [@ EXCEPT !.pc = "done",
                            !.persisted = written,
                            !.response = [status |-> 200, city |-> req.city,
                                          updated_at |-> req.updated_at,
                                          recommendations |-> req.recommendations]]]
            /\ UNCHANGED <<exceptAdvisoryVars, advClock>>

\* an hour passes
Tick ==
    /\ advClock < AdvisoryEnd
    /\ advClock' = advClock + REFRESH_WINDOW_MS
    /\ UNCHANGED <<exceptAdvisoryVars, cacheFile, advRequests>>

NextAdvisory ==
    \/ \E id \in AdvisoryIds : Arrive(id)
    \/ \E id \in AdvisoryIds : ReadCache(id)
    \/ \E id \in AdvisoryIds : CreateCache(id)
    \/ \E id \in AdvisoryIds : Generate(id)
    \/ \E id \in AdvisoryIds : WriteCache(id)
    \/ Tick

SpecAdvisory == InitAdvisory /\ [][NextAdvisory]_vars

(***************************************************************************)
(* Properties of the advisory endpoint (SpecAdvisory)                      *)
(***************************************************************************)
\* generation is unavailable: no key, the request failed, or its text
\* is empty, is not a JSON array, or holds no item with a title and a
\* summary
Unavailable(outcome) ==
    \/ outcome.kind \in {"nokey", "throws"}
    \/ /\ outcome.kind = "text"
       /\ \/ outcome.text.kind # "array"
          \/ outcome.text.fence = "trailing"
          \/ \A i \in 1..Len(outcome.text.items) :
                \/ outcome.text.items[i] = NULL
                \/ outcome.text.items[i].title \in {NULL, <<"  ">>}
                \/ outcome.text.items[i].summary \in {NULL, <<"  ">>}
          \/ \E i \in 1..Len(outcome.text.items) : outcome.text.items[i] = NULL

\* C23: every response with status 200 carries at least one
\* recommendation, and a request whose generation was unavailable answers
\* with the three-item fallback list of its city.
C23_NeverEmpty ==
    \A id \in AdvisoryIds :
        LET req == advRequests[id]
        IN  /\ (req.response # NULL /\ req.response.status = 200)
                => Len(req.response.recommendations) >= 1
            /\ (req.outcome # NULL /\ Unavailable(req.outcome))
                => /\ req.recommendations = createFallbackRecommendations(req.city)
                   /\ Len(req.recommendations) = 3
                   /\ req.response # NULL => req.response.recommendations = req.recommendations

\* the generator returned an array without a valid item and the request
\* answered with the fallback list
C23_Witness ==
    \E id \in AdvisoryIds :
        /\ advRequests[id].outcome # NULL
        /\ advRequests[id].outcome.kind = "text"
        /\ advRequests[id].outcome.text.kind = "array"
        /\ advRequests[id].outcome.text.items = <<BlankTitleItem, NoSummaryItem>>
        /\ advRequests[id].response # NULL
        /\ advRequests[id].response.status = 200

\* the entries of the persisted cache
Persisted(file) == IF file.kind = "json" THEN file.payload.entries ELSE <<>>

\* the entries of a list whose city is name, ignoring case
EntriesFor(entries, name) ==
    {i \in 1..Len(entries) : ToLowerCase(entries[i].city) = ToLowerCase(name)}

\* the list has an entry for name that is younger than one hour at now
HasYoungEntry(entries, name, now) ==
    \E i \in EntriesFor(entries, name) :
        /\ "iso" \in DOMAIN entries[i].updated_at
        /\ now - entries[i].updated_at.iso < REFRESH_WINDOW_MS

\* the list holds exactly one entry for the city of the request, with the
\* recommendations and the timestamp of its response
HoldsExactlyNew(entries, req) ==
    /\ Cardinality(EntriesFor(entries, req.city)) = 1
    /\ \A i \in EntriesFor(entries, req.city) :
          entries[i] = [city |-> req.city, updated_at |-> req.response.updated_at,
                        recommendations |-> req.response.recommendations]

\* the part of the cache policy about what a request does after reading
\* the cache: served from the cache exactly when the entry is young,
\* without generating and without writing; otherwise the generator is
\* called once
ServedOrGenerated(id) ==
    LET req == advRequests[id]
        after == advRequests'[id]
    IN  /\ (req.pc = "read" /\ after.pc = "done")
            => /\ HasYoungEntry(Persisted(cacheFile), req.city, advClock)
               /\ \E i \in EntriesFor(Persisted(cacheFile), req.city) :
                     /\ after.response.recommendations = Persisted(cacheFile)[i].recommendations
                     /\ after.response.updated_at = Persisted(cacheFile)[i].updated_at
               /\ after.generated = 0
               /\ cacheFile' = cacheFile
        /\ (req.pc = "read" /\ after.pc \in {"generate", "create"})
            => ~HasYoungEntry(Persisted(cacheFile), req.city, advClock)
        /\ (req.pc = "write" /\ after.pc = "done") => after.generated = 1

\* C24 as stated: a cached entry younger than one hour is returned
\* without generating and without writing; otherwise the generator is
\* called once and, once the request has answered, the persisted cache
\* holds exactly one entry for the city, with the new recommendations
\* and timestamp.
C24_CachePolicy ==
    [][\A id \in AdvisoryIds :
          /\ ServedOrGenerated(id)
          /\ (advRequests[id].pc = "write" /\ advRequests'[id].pc = "done")
                => HoldsExactlyNew(Persisted(cacheFile'), advRequests'[id])
      ]_vars

\* C24 amended: the same, but the cache holds the new entry only if the
\* file could be written; when writing fails the file is left as it was
\* and the response carries the new recommendations all the same.
C24_CachePolicyWhenWritten ==
    [][\A id \in AdvisoryIds :
          /\ ServedOrGenerated(id)
          /\ (advRequests[id].pc = "write" /\ advRequests'[id].pc = "done")
                => /\ advRequests'[id].response.recommendations = advRequests[id].recommendations
                   /\ IF advRequests'[id].persisted
                      THEN HoldsExactlyNew(Persisted(cacheFile'), advRequests'[id])
                      ELSE cacheFile' = cacheFile
      ]_vars

\* one request was served from the cache and the other one regenerated
\* an entry that was exactly one hour old and persisted it
C24_Witness ==
    \E id, other \in AdvisoryIds :
        /\ advRequests[id].pc = "done"
        /\ advRequests[id].response.status = 200
        /\ advRequests[id].generated = 0
        /\ advRequests[other].pc = "done"
        /\ advRequests[other].persisted
        /\ FindEntry(advRequests[other].cache.entries, advRequests[other].city) # NULL
        /\ AgeOf(advRequests[other].updated_at.iso,
                 FindEntry(advRequests[other].cache.entries, advRequests[other].city).updated_at)
              = REFRESH_WINDOW_MS

\* C28: when two requests for different cities have both regenerated and
\* answered, the persisted cache holds an entry for each of the two
\* cities and still holds every entry of another city that either of
\* them had read.
C28_NoLostUpdate ==
    \A id, other \in AdvisoryIds :
        (/\ advRequests[id].pc = "done"
         /\ advRequests[other].pc = "done"
         /\ advRequests[id].generated = 1
         /\ advRequests[other].generated = 1
         /\ ToLowerCase(advRequests[id].city) # ToLowerCase(advRequests[other].city))
            => /\ EntriesFor(Persisted(cacheFile), advRequests[id].city) # {}
               /\ \A i \in 1..Len(advRequests[id].cache.entries) :
                     LET entry == advRequests[id].cache.entries[i]
                     IN  ToLowerCase(entry.city) \notin
                             {ToLowerCase(advRequests[id].city), ToLowerCase(advRequests[other].city)}
                         => \E j \in 1..Len(Persisted(cacheFile)) : Persisted(cacheFile)[j] = entry

====
